---- MODULE Spec2Model ----
(***************************************************************************)
(* torygg: mod deployment for a Windows game on a POSIX host.              *)
(*                                                                         *)
(* Part I  models the mount session (src/src/applauncher.rs): rename the   *)
(*         target aside, mount a union file system over it, unmount and    *)
(*         restore.                                                        *)
(* Part II models the copy based deploy engine                             *)
(*         (src/torygg/src/state.rs) with the case-insensitive path        *)
(*         resolver (src/torygg/src/util.rs).                              *)
(* Part III models the path resolver called on its own, Part IV the VDF    *)
(*         parser (src/torygg-vdf/src/lib.rs), Part V the profiles and     *)
(*         installed mods (src/torygg/src/profile.rs, state.rs,            *)
(*         src/src/modmanager.rs), Part VI install_mod's search for the    *)
(*         mod root and Part VII the game's directories (src/src/games.rs).*)
(***************************************************************************)
EXTENDS Integers, Sequences, FiniteSets, TLC

VARIABLES
    \* ---- mount session -------------------------------------------------
    mounted_paths,   \* AppLauncher.mounted_paths: Vec<PathBuf>
    target,          \* what the file system holds at each target path
    backup,          \* what the file system holds at each "<target>~"
    overlay,         \* the union mount on each target (NoMount when none)
    enabled,         \* profile.get_enabled_mods(), in profile order
    pc,              \* position of the session: new/config/appdata/game/returned/dropped
    result,          \* what the last call returned
    cmds,            \* every fuse-overlayfs command line spawned so far
    attempted,       \* targets for which the last unmount_all spawned umount
    original,        \* contents of each target when the session was created
    calls,           \* number of unmount_all calls so far
    halfMounted,     \* targets whose latest mount_path failed after its rename
    renameFailed,    \* targets the last unmount_all unmounted but could not restore
    unmountHist,     \* <<list before, list after>> of every unmount_all call
    \* ---- deploy engine -------------------------------------------------
    data,            \* the tree under the target directory <install>/Data
    vault,           \* the tree under the Backup Vault <data_dir>/Backup
    profile_mods,    \* Profile.mods: Option<Vec<String>>
    deployed_files,  \* ToryggState.deployed_files: Option<Vec<PathBuf>>
    persisted_files, \* deployed_files as last written to .toryggstate.toml
    dpc,             \* idle / deploying / removing / restoring
    unmanaged_files, \* deploy's snapshot of the paths under the target
    result_vec,      \* deploy's local `result`
    cur,             \* index of the mod deploy is walking
    walk,            \* entries the running walk has still to yield
    rem,             \* undeploy: index of the next recorded path to remove
    dirOrder,        \* the order in which read_dir lists entries
    dresult,         \* what the last deploy/undeploy call returned
    fsFailed,        \* TRUE once the file system has failed an operation
    deploys,         \* deploy calls that began a walk so far
    preData,         \* the target tree when the current deploy began
    preVault,        \* the vault when the current deploy began
    displaced,       \* paths the current deploy moved into the vault
    cycle,           \* "deployed" after a successful deploy, "undeployed" after
                     \* a successful undeploy that followed it, else "none"
    \* ---- path resolver ------------------------------------------------
    root,            \* the tree under the root given to the resolver
    listing,         \* the order in which read_dir lists the entries of root
    relative_path,   \* the relative path given to the resolver
    resolved,        \* what the call returned, or that it panicked
    rpc,             \* call / done
    \* ---- VDF parser ---------------------------------------------------
    document,        \* the tokens of the text given to parse
    buf,             \* the characters read from the buffer
    kv,              \* kv_pairs as returned by parse
    vpc,             \* call / done
    \* ---- profiles and installed mods ------------------------------------
    installed,       \* the names of the directories under mods_dir
    profile_files,   \* the mods of each profile.toml under config_dir
    profile_name,    \* ToryggState.profile.name
    presult,         \* what the last profile operation returned
    last_op,         \* the last profile operation and its argument
    \* ---- install_mod ---------------------------------------------------
    extracted,       \* the tree 7z left in the temporary directory
    iname,           \* the name given to install_mod
    mod_root,        \* install_mod's mod_root, relative to the temporary directory
    ientries,        \* the names the last read_dir(&mod_root) collected
    ipc,             \* call / read_dir / check / select / done
    iresult,         \* what install_mod returned and which installer ran
    \* ---- game directories ----------------------------------------------
    genv,            \* what exists on disk and in the environment
    gop,             \* the last function of Game that was called
    gresult          \* what it returned

mountVars == <<mounted_paths, target, backup, overlay, enabled, pc,
               result, cmds, attempted, original, calls, halfMounted, renameFailed, unmountHist>>

deployVars == <<data, vault, profile_mods, deployed_files, persisted_files, dpc,
                unmanaged_files, result_vec, cur, walk, rem, dirOrder, dresult,
                fsFailed, deploys, preData, preVault, displaced, cycle>>

resolveVars == <<root, listing, relative_path, resolved, rpc>>

vdfVars == <<document, buf, kv, vpc>>

profileVars == <<installed, profile_files, profile_name, presult, last_op>>

installVars == <<extracted, iname, mod_root, ientries, ipc, iresult>>

gamesVars == <<genv, gop, gresult>>

vars == <<mountVars, deployVars, resolveVars, vdfVars, profileVars, installVars, gamesVars>>

-----------------------------------------------------------------------------
(*                       Part I : the mount session                        *)
-----------------------------------------------------------------------------

\* Bounds of the model.
MaxMods == 2          \* longest enabled-mod list
MaxUnmounts == 2      \* explicit unmount_all calls before the launcher is dropped

Mods == {"m1", "m2", "m3"}

\* The three directories mount_all mounts, in the order it mounts them.
MountOrder == <<"Data", "Config", "AppData">>
Targets == {MountOrder[i] : i \in 1..Len(MountOrder)}

Absent   == <<"absent">>          \* no directory entry at the path
EmptyDir == <<"emptydir">>          \* a directory without entries
Stuff(t) == <<"contents", t>>    \* a non-empty directory: the user's files of t
DirStates(t) == {Absent, EmptyDir, Stuff(t)}
NoMount  == [target |-> "none", lowerdir |-> <<>>, upperdir |-> "none"]

\* backup_path = path.parent().join(last_component + "~")
BackupPath(t) == t \o "~"
ModPath(m) == "Mods/" \o m

SeqsNoDup(S, n) ==
    UNION {{s \in [1..k -> S] : \A i, j \in 1..k : i # j => s[i] # s[j]} : k \in 0..n}

RECURSIVE SelectSeqBy(_, _)
\* Vec::retain with a per-element keep flag
SelectSeqBy(s, keep) ==
    IF s = <<>> THEN <<>>
    ELSE (IF keep[1] THEN <<Head(s)>> ELSE <<>>) \o
         SelectSeqBy(Tail(s), Tail(keep))

\* fs::rename(from, to) on directories: the source must exist; an existing
\* destination is replaced only when it is an empty directory.  A mount
\* point cannot be renamed or replaced (EBUSY).
RenameDirOk(from, to, fromMounted, toMounted) ==
    /\ from # Absent
    /\ to \in {Absent, EmptyDir}
    /\ ~fromMounted
    /\ ~toMounted

MountOutcomes ==
    {"join_fail", "rename_fail", "mkdir_fail", "spawn_fail", "wait_fail",
     "exit_nonzero", "ok"}

\* Outcomes after which fuse-overlayfs was spawned.
Spawned == {"wait_fail", "exit_nonzero", "ok"}

\* (mutant) the backup sibling is put in front of the caller's layers
LowerDir_Prepend(t, lower_paths) == <<BackupPath(t)>> \o lower_paths

\* (mutant) the backup sibling is left out of the lower list
LowerDir_NoBackup(t, lower_paths) == lower_paths

\* AppLauncher::mount_path: the backup sibling is pushed onto the caller's
\* lower list, which is then joined into the lowerdir option.
LowerDir(t, lower_paths) == Append(lower_paths, BackupPath(t))

\* (mutant) the exit status of fuse-overlayfs is not looked at
MountOk_IgnoresExit(out) == out \in {"ok", "exit_nonzero"}

\* AppLauncher::mount_path goes on to push the path only when the tool was
\* spawned, waited for and exited with success.
MountOk(out) == out = "ok"

\* AppLauncher::mount_path(path, lower_paths, upper, work) with the outcome
\* `out` of its external steps; TRUE iff it returned Ok.
mount_path_ok(t, out) ==
    /\ MountOk(out)
    /\ RenameDirOk(target[t], backup[t], overlay[t] # NoMount, FALSE)

mount_path(t, lower_paths, upper, out) ==
    LET renamed == /\ out \notin {"join_fail", "rename_fail"}
                   /\ RenameDirOk(target[t], backup[t], overlay[t] # NoMount, FALSE)
        recreated == renamed /\ out # "mkdir_fail"
        spawned == recreated /\ out \in Spawned
        mounted == spawned /\ out = "ok"
        ok == spawned /\ MountOk(out)
        cmd == [target |-> t, lowerdir |-> LowerDir(t, lower_paths), upperdir |-> upper]
    IN  /\ backup' = IF renamed THEN [backup EXCEPT ![t] = target[t]] ELSE backup
        /\ target' = IF recreated THEN [target EXCEPT ![t] = EmptyDir]
                     ELSE IF renamed THEN [target EXCEPT ![t] = Absent]
                     ELSE target
        /\ cmds' = IF spawned THEN cmds \cup {cmd} ELSE cmds
        /\ overlay' = IF mounted THEN [overlay EXCEPT ![t] = cmd] ELSE overlay
        /\ mounted_paths' = IF ok THEN Append(mounted_paths, t) ELSE mounted_paths
        /\ halfMounted' = IF renamed /\ ~ok THEN halfMounted \cup {t}
                          ELSE IF ok THEN halfMounted \ {t}
                          ELSE halfMounted

\* The lower list and upper directory mount_all passes for each target.
LowerFor(t) == IF t = "Data" THEN [i \in 1..Len(enabled) |-> ModPath(enabled[i])] ELSE <<>>
UpperFor(t) == IF t = "Data" THEN "Overwrite" ELSE "Configs"

PcOf(i) == IF i = 1 THEN "new" ELSE IF i = 2 THEN "config" ELSE "appdata"

\* (mutant) the error of a mount is not propagated
AfterMount_IgnoresError(i, ok) ==
    IF i = 1 THEN "config" ELSE IF i = 2 THEN "appdata" ELSE "game"

\* `self.mount_path(...)?` in mount_all and `self.mount_all()?` in run: an
\* error returns from run, success goes on to the next mount and, after the
\* third, to the game.
AfterMount(i, ok) ==
    IF ~ok THEN "returned"
    ELSE IF i = 1 THEN "config"
    ELSE IF i = 2 THEN "appdata" ELSE "game"

\* One mount of mount_all (called from run): the i-th target of MountOrder.
\* `lookup` is FALSE when a directory lookup before the mount fails
\* (get_install_dir, get_config_dir, ...), which returns before mounting.
MountStep(i, lookup, out) ==
    LET t == MountOrder[i]
        ok == lookup /\ mount_path_ok(t, out)
    IN  /\ pc = PcOf(i)
        /\ IF lookup
           THEN mount_path(t, LowerFor(t), UpperFor(t), out)
           ELSE UNCHANGED <<backup, target, cmds, overlay, mounted_paths, halfMounted>>
        /\ pc' = AfterMount(i, ok)
        /\ result' = IF ok THEN result ELSE "Err"
        /\ UNCHANGED <<enabled, attempted, original, calls, renameFailed, unmountHist>>
        /\ UNCHANGED <<deployVars, resolveVars, vdfVars, profileVars, installVars, gamesVars>>

MountData == \E lookup \in BOOLEAN, out \in MountOutcomes : MountStep(1, lookup, out)
MountConfig == \E lookup \in BOOLEAN, out \in MountOutcomes : MountStep(2, lookup, out)
MountAppdata == \E lookup \in BOOLEAN, out \in MountOutcomes : MountStep(3, lookup, out)

\* run(): after mount_all succeeded the game runs and its result is returned.
GameRun ==
    /\ pc = "game"
    /\ \E r \in {"Ok", "Err"} : result' = r
    /\ pc' = "returned"
    /\ UNCHANGED <<mounted_paths, target, backup, overlay, enabled, cmds,
                   attempted, original, calls, halfMounted, renameFailed, unmountHist>>
    /\ UNCHANGED <<deployVars, resolveVars, vdfVars, profileVars, installVars, gamesVars>>

UmountOutcomes == {"spawn_fail", "wait_fail", "exit_nonzero", "ok"}

\* (mutant) the closure answers true on every path
RetainKeeps_KeepAll(out) == TRUE

\* (mutant) the closure answers the opposite
RetainKeeps_Inverted(out) == out = "ok"

\* The closure of retain in unmount_all, for a path whose umount had the
\* outcome `out`: TRUE iff the path is kept in mounted_paths.
RetainKeeps(out) == out # "ok"

\* (mutant) the loop over the paths ends at the first failing umount
RetainVisits_StopAtFailure(paths, umount) ==
    {i \in 1..Len(paths) : \A j \in 1..(i - 1) : umount[j] = "ok"}

\* Vec::retain calls the closure once for every element, in order.
RetainVisits(paths, umount) == 1..Len(paths)

\* (mutant) unmount_all reports success whatever is left
UnmountResult_AlwaysOk(left) == "Ok"

\* unmount_all returns Ok when mounted_paths is empty after retain.
UnmountResult(left) == IF left = <<>> THEN "Ok" ELSE "Err"

\* AppLauncher::unmount_all.  umount[i] is the outcome of the umount tool
\* for the i-th active path, rename[i] whether the file system lets
\* fs::rename(backup_path, path) succeed for it.
unmount_all(umount, rename) ==
    LET n == Len(mounted_paths)
        visits == RetainVisits(mounted_paths, umount)
        idx(t) == CHOOSE i \in 1..n : mounted_paths[i] = t
        unmounted == {mounted_paths[i] : i \in {j \in visits : umount[j] = "ok"}}
        restored == {t \in unmounted :
                        /\ rename[idx(t)]
                        /\ RenameDirOk(backup[t], target[t], FALSE, FALSE)}
        keep == [i \in 1..n |-> i \in visits => RetainKeeps(umount[i])]
    IN  /\ overlay' = [t \in Targets |-> IF t \in unmounted THEN NoMount ELSE overlay[t]]
        /\ target' = [t \in Targets |-> IF t \in restored THEN backup[t] ELSE target[t]]
        /\ backup' = [t \in Targets |-> IF t \in restored THEN Absent ELSE backup[t]]
        /\ mounted_paths' = SelectSeqBy(mounted_paths, keep)
        /\ attempted' = {mounted_paths[i] : i \in visits}
        /\ calls' = calls + 1
        /\ renameFailed' = unmounted \ restored
        /\ unmountHist' = Append(unmountHist, <<mounted_paths, mounted_paths'>>)
        /\ result' = UnmountResult(mounted_paths')

\* The rename is only reached for a path whose umount succeeded.
RenameOutcomes(umount) ==
    {r \in [DOMAIN umount -> BOOLEAN] : \A i \in DOMAIN umount : umount[i] # "ok" => r[i]}

\* unmount_all called while the launcher is alive (a retry).
UnmountAll ==
    /\ pc = "returned"
    /\ calls < MaxUnmounts
    /\ \E umount \in [1..Len(mounted_paths) -> UmountOutcomes] :
         \E rename \in RenameOutcomes(umount) : unmount_all(umount, rename)
    /\ UNCHANGED <<enabled, pc, cmds, original, halfMounted>>
    /\ UNCHANGED <<deployVars, resolveVars, vdfVars, profileVars, installVars, gamesVars>>

\* Drop for AppLauncher: unmount_all, then only logging.
Drop ==
    /\ pc \in {"new", "returned"}
    /\ \E umount \in [1..Len(mounted_paths) -> UmountOutcomes] :
         \E rename \in RenameOutcomes(umount) : unmount_all(umount, rename)
    /\ pc' = "dropped"
    /\ UNCHANGED <<enabled, cmds, original, halfMounted>>
    /\ UNCHANGED <<deployVars, resolveVars, vdfVars, profileVars, installVars, gamesVars>>

-----------------------------------------------------------------------------
(*        Part II : file trees and the case-insensitive path resolver      *)
-----------------------------------------------------------------------------

\* File names.  A path is a sequence of names; <<>> is the root of a tree.
Names == {"d", "D", "f", "F"}

\* (mutant) names are compared exactly
UnicaseEq_Exact(a, b) == a = b

\* unicase::eq(a, b) compares the case folded names.
Fold(n) ==
    CASE n = "D" -> "d"
      [] n = "F" -> "f"
      [] n = "Data" -> "data"
      [] n = "MyMod" -> "mymod"
      [] OTHER -> n
UnicaseEq(a, b) == Fold(a) = Fold(b)

\* The orders in which read_dir may list the entries of a directory.
ReadDirOrders == {<<"d", "D", "f", "F">>, <<"F", "f", "D", "d">>}

\* A tree is a function from the paths below its root to nodes.
DirNode == <<"dir">>
FileNode(c) == <<"file", c>>
EmptyTree == [p \in {} |-> DirNode]

Exists(tree, p) == p = <<>> \/ p \in DOMAIN tree
IsDir(tree, p) == p = <<>> \/ (p \in DOMAIN tree /\ tree[p] = DirNode)
IsFile(tree, p) == p \in DOMAIN tree /\ tree[p] # DirNode
Parent(p) == SubSeq(p, 1, Len(p) - 1)
IsPrefix(p, q) == Len(p) <= Len(q) /\ SubSeq(q, 1, Len(p)) = p
Below(tree, p) == {q \in DOMAIN tree : Len(q) > Len(p) /\ IsPrefix(p, q)}
Files(tree) == {p \in DOMAIN tree : tree[p] # DirNode}

Put(tree, p, node) == [q \in DOMAIN tree \cup {p} |-> IF q = p THEN node ELSE tree[q]]
Without(tree, S) == [q \in DOMAIN tree \ S |-> tree[q]]

RECURSIVE ReadDirFrom(_, _, _, _)
ReadDirFrom(tree, dir, order, i) ==
    IF i > Len(order) THEN <<>>
    ELSE (IF Append(dir, order[i]) \in DOMAIN tree THEN <<order[i]>> ELSE <<>>)
         \o ReadDirFrom(tree, dir, order, i + 1)

\* fs::read_dir(dir): the names of the entries of dir, in listing order.
ReadDir(tree, dir, order) == ReadDirFrom(tree, dir, order, 1)

RECURSIVE FirstMatch(_, _)
\* the loop over the entries in find_case_insensitive_path: the first entry
\* equal to the component ignoring case, <<>> when there is none
FirstMatch(entries, component) ==
    IF entries = <<>> THEN <<>>
    ELSE IF UnicaseEq(Head(entries), component) THEN <<Head(entries)>>
    ELSE FirstMatch(Tail(entries), component)

\* (mutant) the flag stays set after a component was not found
PathExistsAfterMiss_Stays == TRUE

\* `if !found { path_exists = false; ... }`
PathExistsAfterMiss == FALSE

RECURSIVE Resolve(_, _, _, _, _, _)
\* The loop of find_case_insensitive_path over the components.  `reads` is
\* the sequence of directories read so far.  read_dir().unwrap() panics
\* when the accumulated prefix is not a directory.
Resolve(tree, order, components, res, path_exists, reads) ==
    IF components = <<>> THEN [panic |-> FALSE, path |-> res, reads |-> reads]
    ELSE IF ~path_exists
         THEN Resolve(tree, order, Tail(components), Append(res, Head(components)),
                      FALSE, reads)
    ELSE IF ~IsDir(tree, res)
         THEN [panic |-> TRUE, path |-> res, reads |-> reads]
    ELSE LET m == FirstMatch(ReadDir(tree, res, order), Head(components))
         IN  IF m # <<>>
             THEN Resolve(tree, order, Tail(components), Append(res, m[1]),
                          TRUE, Append(reads, res))
             ELSE Resolve(tree, order, Tail(components),
                          Append(res, Head(components)), PathExistsAfterMiss,
                          Append(reads, res))

\* util::find_case_insensitive_path(root, relative)
find_case_insensitive_path(tree, order, relative) ==
    Resolve(tree, order, relative, <<>>, TRUE, <<>>)

RECURSIVE WalkFrom(_, _, _, _, _)
WalkFrom(tree, order, dir, i, contents_first) ==
    IF i > Len(order) THEN <<>>
    ELSE LET p == Append(dir, order[i])
             sub == IF tree[p] = DirNode
                    THEN WalkFrom(tree, order, p, 1, contents_first) ELSE <<>>
         IN  (IF p \notin DOMAIN tree THEN <<>>
              ELSE IF contents_first THEN Append(sub, p) ELSE <<p>> \o sub)
             \o WalkFrom(tree, order, dir, i + 1, contents_first)

\* WalkDir::new(root).min_depth(1): every path below the root, a directory
\* before its contents, or after them with contents_first(true).
WalkDir(tree, order, contents_first) == WalkFrom(tree, order, <<>>, 1, contents_first)

-----------------------------------------------------------------------------
(*                   Part II : the copy based deploy engine                *)
-----------------------------------------------------------------------------

\* Option<T>
None == <<"None">>
Some(x) == <<"Some", x>>
Unwrap(o) == o[2]

\* The operations of the file system that the environment may make fail.
FsFaults == {"none", "create_dir", "vault_mkdir", "rename", "copy", "remove", "write"}

\* fs::create_dir(p): the parent is a directory and nothing is at p.
CreateDirOk(tree, p) == ~Exists(tree, p) /\ IsDir(tree, Parent(p))

\* fs::rename(from/p, to/q) moves the node at p with everything below it.
\* A file replaces a file, a directory replaces an empty directory.
RenameOk(from, p, to, q) ==
    /\ Exists(from, p) /\ p # <<>>
    /\ IsDir(to, Parent(q))
    /\ Exists(to, q) =>
          IF IsDir(from, p) THEN IsDir(to, q) /\ Below(to, q) = {}
          ELSE IsFile(to, q)

Moved(from, p) == {p} \cup Below(from, p)
Rebase(x, p, q) == q \o SubSeq(x, Len(p) + 1, Len(x))

RenameFrom(from, p) == Without(from, Moved(from, p))
RenameInto(from, p, to, q) ==
    [y \in DOMAIN to \cup {Rebase(x, p, q) : x \in Moved(from, p)} |->
        IF \E x \in Moved(from, p) : Rebase(x, p, q) = y
        THEN from[CHOOSE x \in Moved(from, p) : Rebase(x, p, q) = y]
        ELSE to[y]]

\* fs::copy(file, to/q): q is created or overwritten; it must not be a
\* directory and its parent must be one.
CopyOk(to, q) == IsDir(to, Parent(q)) /\ ~IsDir(to, q)

\* What a file of mod m at the relative path rel contains.
ModContent(m, rel) == <<m, rel>>

RECURSIVE VaultDirs(_, _, _)
\* `for dir in to_relative_path.parent().unwrap()
\*      { backup_dir.maybe_create_child_directory(dir)? }`:
\* every component of the parent is created as a child of the vault root.
VaultDirs(v, comps, fault) ==
    IF comps = <<>> THEN [ok |-> TRUE, tree |-> v, faulted |-> FALSE]
    ELSE LET dir == <<Head(comps)>>
         IN  IF ~Exists(v, dir)
             THEN IF fault = "vault_mkdir"
                  THEN [ok |-> FALSE, tree |-> v, faulted |-> TRUE]
                  ELSE VaultDirs(Put(v, dir, DirNode), Tail(comps), fault)
             ELSE IF ~IsDir(v, dir)
                  THEN [ok |-> FALSE, tree |-> v, faulted |-> FALSE]
                  ELSE VaultDirs(v, Tail(comps), fault)

\* deploy moves the destination into the vault when it exists and was
\* under the target when the deploy began.
Displaces(tree, v, unmanaged, to) == Exists(tree, to) /\ to \in unmanaged

\* The outcome of one step of deploy's walk: how it ended, the trees and
\* the record after it, whether the injected fault struck and whether the
\* destination was moved into the vault.
StepResult(st, tree, v, rec, faulted, moved) ==
    [status |-> st, data |-> tree, vault |-> v, rec |-> rec, faulted |-> faulted,
     moved |-> moved]

\* (mutant) the path is pushed whether or not the record holds it
PushIfAbsent_Always(rec, to) == Append(rec, to)

\* `if !result.contains(&to_relative_path) { result.push(to_relative_path) }`
PushIfAbsent(rec, to) ==
    IF \E i \in 1..Len(rec) : rec[i] = to THEN rec ELSE Append(rec, to)

\* The body of deploy's loop for a directory entry of a mod.
DeployDir(tree, v, rec, to, fault) ==
    IF IsDir(tree, to) THEN StepResult("ok", tree, v, rec, FALSE, FALSE)
    ELSE IF fault = "create_dir" THEN StepResult("err", tree, v, rec, TRUE, FALSE)
    ELSE IF ~CreateDirOk(tree, to) THEN StepResult("err", tree, v, rec, FALSE, FALSE)
    ELSE StepResult("ok", Put(tree, to, DirNode), v, Append(rec, to), FALSE, FALSE)

\* (mutant) an existing destination file is left as it is
CopyOver_KeepExisting(tree, to, node) == IF IsFile(tree, to) THEN tree ELSE Put(tree, to, node)

\* fs::copy(path, to_path) creates the destination or overwrites its content.
CopyOver(tree, to, node) == Put(tree, to, node)

\* fs::copy and the push that follow the displacement.
DeployCopy(tree, v, rec, m, rel, to, fault, moved) ==
    IF fault = "copy" THEN StepResult("err", tree, v, rec, TRUE, moved)
    ELSE IF ~CopyOk(tree, to) THEN StepResult("err", tree, v, rec, FALSE, moved)
    ELSE StepResult("ok", CopyOver(tree, to, FileNode(ModContent(m, rel))), v,
                    PushIfAbsent(rec, to), FALSE, moved)

\* The body of deploy's loop for a file entry of a mod.
DeployFile(tree, v, rec, unmanaged, m, rel, to, fault) ==
    IF Displaces(tree, v, unmanaged, to)
    THEN LET dirs == VaultDirs(v, Parent(to), fault)
         IN  IF ~dirs.ok
             THEN StepResult("err", tree, dirs.tree, rec, dirs.faulted, FALSE)
             ELSE IF fault = "rename"
             THEN StepResult("err", tree, dirs.tree, rec, TRUE, FALSE)
             ELSE IF ~RenameOk(tree, to, dirs.tree, to)
             THEN StepResult("err", tree, dirs.tree, rec, FALSE, FALSE)
             ELSE DeployCopy(RenameFrom(tree, to), RenameInto(tree, to, dirs.tree, to),
                             rec, m, rel, to, fault, TRUE)
    ELSE DeployCopy(tree, v, rec, m, rel, to, fault, FALSE)

\* The body of deploy's loop for the entry rel of mod m whose tree is mtree.
DeployEntry(tree, v, rec, unmanaged, order, m, mtree, rel, fault) ==
    LET r == find_case_insensitive_path(tree, order, rel)
    IN  IF r.panic THEN StepResult("panic", tree, v, rec, FALSE, FALSE)
        ELSE IF mtree[rel] = DirNode THEN DeployDir(tree, v, rec, r.path, fault)
        ELSE DeployFile(tree, v, rec, unmanaged, m, rel, r.path, fault)

\* Bounds of the deploy model.
MaxEnabled == 2       \* longest enabled-mod list of the profile
MaxDeploys == 2       \* deploy calls that get as far as walking the mods

Orig(p) == FileNode(<<"orig", p>>)

\* The installed mods: data_dir/Mods/<name>.
ModTree(m, dirs, files) ==
    [p \in dirs \cup files |->
        IF p \in dirs THEN DirNode ELSE FileNode(ModContent(m, p))]
ModStore ==
    [m \in {"m1", "m2", "m3", "m4", "m5", "m6"} |->
        CASE m = "m1" -> ModTree(m, {}, {<<"f">>})
          [] m = "m2" -> ModTree(m, {<<"d">>}, {<<"f">>, <<"d", "f">>})
          [] m = "m3" -> ModTree(m, {<<"D">>}, {<<"D", "F">>})
          [] m = "m4" -> ModTree(m, {<<"d">>, <<"d", "d">>}, {<<"d", "d", "f">>})
          [] m = "m5" -> ModTree(m, {<<"d">>}, {})
          [] m = "m6" -> ModTree(m, {}, {<<"d">>})]
StoreMods == DOMAIN ModStore

\* The trees the target directory may hold before anything is deployed.
DataTree(dirs, files) ==
    [p \in dirs \cup files |-> IF p \in dirs THEN DirNode ELSE Orig(p)]
DataTrees ==
    { EmptyTree,
      DataTree({}, {<<"f">>}),
      DataTree({<<"d">>}, {<<"f">>, <<"d", "f">>}),
      DataTree({<<"d">>, <<"d", "d">>}, {<<"d", "d", "f">>}),
      DataTree({<<"d">>, <<"D">>}, {<<"d", "f">>}),
      DataTree({<<"D">>}, {<<"D", "F">>, <<"F">>}),
      DataTree({}, {<<"d">>}),
      DataTree({<<"f">>}, {<<"f", "f">>}) }

\* `for m in mods`: the position of the loop once the mods without entries
\* from index i on are passed, with the walk of the mod it stops at.
RECURSIVE LoopAt(_, _, _)
LoopAt(mods, i, order) ==
    IF i > Len(mods) THEN [cur |-> i, walk |-> <<>>]
    ELSE LET w == WalkDir(ModStore[mods[i]], order, FALSE)
         IN  IF w = <<>> THEN LoopAt(mods, i + 1, order) ELSE [cur |-> i, walk |-> w]

\* (mutant) a profile without a list enables the mod m1
enabled_mods_Default == IF profile_mods = None THEN Some(<<"m1">>) ELSE profile_mods

\* Profile::enabled_mods: self.mods.as_ref()
enabled_mods == profile_mods

\* (mutant) the state never reports that it is deployed
deployed_Never == FALSE

\* ToryggState::deployed
deployed == deployed_files # None

\* A panic ends the process: the next start reads the persisted state.
Restarted == deployed_files' = persisted_files

\* deploy(): the checks and the snapshot before the loop.
DeployBegin ==
    /\ dpc = "idle"
    /\ IF deployed
       THEN /\ dresult' = "Err"
            /\ UNCHANGED <<dpc, unmanaged_files, result_vec, cur, walk, preData,
                           preVault, displaced, deploys, cycle>>
       ELSE IF enabled_mods = None
       THEN /\ dresult' = "Ok"
            /\ UNCHANGED <<dpc, unmanaged_files, result_vec, cur, walk, preData,
                           preVault, displaced, deploys, cycle>>
       ELSE LET at == LoopAt(Unwrap(enabled_mods), 1, dirOrder)
            IN  /\ deploys < MaxDeploys
                /\ deploys' = deploys + 1
                /\ unmanaged_files' = DOMAIN data
                /\ result_vec' = <<>>
                /\ cur' = at.cur
                /\ walk' = at.walk
                /\ dpc' = "deploying"
                /\ preData' = data
                /\ preVault' = vault
                /\ displaced' = {}
                /\ cycle' = "none"
                /\ UNCHANGED dresult
    /\ UNCHANGED <<data, vault, profile_mods, deployed_files, persisted_files, rem,
                   dirOrder, fsFailed>>
    /\ UNCHANGED <<mountVars, resolveVars, vdfVars, profileVars, installVars, gamesVars>>

\* deploy(): one entry of the walk of the current mod.
DeployStep ==
    /\ dpc = "deploying"
    /\ walk # <<>>
    /\ \E fault \in FsFaults :
        LET mods == Unwrap(enabled_mods)
            m == mods[cur]
            rel == Head(walk)
            r == DeployEntry(data, vault, result_vec, unmanaged_files, dirOrder,
                             m, ModStore[m], rel, fault)
            at == IF Tail(walk) # <<>> THEN [cur |-> cur, walk |-> Tail(walk)]
                  ELSE LoopAt(mods, cur + 1, dirOrder)
        IN  /\ fault # "none" => (r.faulted /\ ~fsFailed)
            /\ fsFailed' = (fsFailed \/ r.faulted)
            /\ data' = r.data
            /\ vault' = r.vault
            /\ displaced' =
                  IF r.moved
                  THEN displaced \cup {find_case_insensitive_path(data, dirOrder, rel).path}
                  ELSE displaced
            /\ IF r.status = "ok"
               THEN /\ result_vec' = r.rec
                    /\ cur' = at.cur
                    /\ walk' = at.walk
                    /\ UNCHANGED <<dpc, dresult, deployed_files>>
               ELSE /\ result_vec' = <<>>
                    /\ cur' = 0
                    /\ walk' = <<>>
                    /\ dpc' = "idle"
                    /\ dresult' = IF r.status = "panic" THEN "Panic" ELSE "Err"
                    /\ IF r.status = "panic" THEN Restarted ELSE UNCHANGED deployed_files
    /\ UNCHANGED <<profile_mods, persisted_files, unmanaged_files, rem, dirOrder,
                   deploys, preData, preVault, cycle>>
    /\ UNCHANGED <<mountVars, resolveVars, vdfVars, profileVars, installVars, gamesVars>>

\* (mutant) the record is stored and written even when it is empty
RecordWritten_Always(result_) == TRUE

\* `if !result.is_empty()`
RecordWritten(result_) == result_ # <<>>

\* deploy(): after the loop the record is stored and written when it is not
\* empty.
DeployEnd ==
    /\ dpc = "deploying"
    /\ walk = <<>>
    /\ \E fault \in {"none", "write"} :
        LET writes == RecordWritten(result_vec)
        IN  /\ fault # "none" => (writes /\ ~fsFailed)
            /\ fsFailed' = (fsFailed \/ fault # "none")
            /\ deployed_files' = IF writes THEN Some(result_vec) ELSE deployed_files
            /\ persisted_files' = IF writes /\ fault = "none" THEN Some(result_vec)
                                  ELSE persisted_files
            /\ dresult' = IF fault = "none" THEN "Ok" ELSE "Err"
    /\ cycle' = IF dresult' = "Ok" THEN "deployed" ELSE "none"
    /\ dpc' = "idle"
    /\ result_vec' = <<>>
    /\ cur' = 0
    /\ UNCHANGED <<data, vault, profile_mods, unmanaged_files, walk, rem, dirOrder,
                   deploys, preData, preVault, displaced>>
    /\ UNCHANGED <<mountVars, resolveVars, vdfVars, profileVars, installVars, gamesVars>>

\* undeploy(): `for relative_path in deployed.iter().rev()` visits the
\* record from its last index down to 1.
FirstToRemove(rec) == Len(rec)

\* (mutant) every second recorded path is skipped
NextToRemove_Skip(i) == IF i >= 2 THEN i - 2 ELSE 0

NextToRemove(i) == i - 1

\* fs::remove_dir needs an empty directory, fs::remove_file a file.
RemoveOk(tree, p) ==
    IF IsDir(tree, p) THEN p # <<>> /\ Below(tree, p) = {} ELSE IsFile(tree, p)

\* (mutant) undeploy goes on without a record
NoRecord_Never == FALSE

\* undeploy(): `let Some(deployed) = &self.deployed_files else { return Err }`
NoRecord == deployed_files = None

\* undeploy(): the check of the record.
UndeployBegin ==
    /\ dpc = "idle"
    /\ IF NoRecord
       THEN /\ dresult' = "Err"
            /\ UNCHANGED <<dpc, rem>>
       ELSE /\ dpc' = "removing"
            /\ rem' = IF deployed_files = None THEN 0
                       ELSE FirstToRemove(Unwrap(deployed_files))
            /\ UNCHANGED dresult
    /\ UNCHANGED <<data, vault, profile_mods, deployed_files, persisted_files,
                   unmanaged_files, result_vec, cur, walk, dirOrder, fsFailed, deploys,
                   preData, preVault, displaced, cycle>>
    /\ UNCHANGED <<mountVars, resolveVars, vdfVars, profileVars, installVars, gamesVars>>

\* undeploy(): remove one recorded path.
RemoveStep ==
    /\ dpc = "removing"
    /\ rem >= 1
    /\ \E fault \in {"none", "remove"} :
        LET path == Unwrap(deployed_files)[rem]
            ok == fault = "none" /\ RemoveOk(data, path)
        IN  /\ fault # "none" => ~fsFailed
            /\ fsFailed' = (fsFailed \/ fault # "none")
            /\ IF ok
               THEN /\ data' = Without(data, {path})
                    /\ rem' = NextToRemove(rem)
                    /\ UNCHANGED <<dpc, dresult, cycle>>
               ELSE /\ dpc' = "idle"
                    /\ dresult' = "Err"
                    /\ cycle' = "none"
                    /\ rem' = 0
                    /\ UNCHANGED data
    /\ UNCHANGED <<vault, profile_mods, deployed_files, persisted_files, unmanaged_files,
                   result_vec, cur, walk, dirOrder, deploys, preData, preVault, displaced>>
    /\ UNCHANGED <<mountVars, resolveVars, vdfVars, profileVars, installVars, gamesVars>>

\* (mutant) the walk over the vault yields a directory before its contents
ContentsFirst_Off == FALSE

\* `WalkDir::new(&backup_dir).min_depth(1).contents_first(true)`
ContentsFirst == TRUE

\* (mutant) the record is cleared before the loop over it has ended
LoopEnded_Early(r) == TRUE

\* `for relative_path in deployed.iter().rev()` has visited every path.
LoopEnded(r) == r = 0

\* undeploy(): `self.deployed_files = None; self.write().unwrap()` and the
\* start of the walk over the vault.
UndeployClear ==
    /\ dpc = "removing"
    /\ LoopEnded(rem)
    /\ \E fault \in {"none", "write"} :
        /\ fault # "none" => ~fsFailed
        /\ fsFailed' = (fsFailed \/ fault # "none")
        /\ IF fault = "none"
           THEN LET w == WalkDir(vault, dirOrder, ContentsFirst)
                IN  /\ deployed_files' = None
                    /\ persisted_files' = None
                    /\ walk' = w
                    /\ dpc' = IF w = <<>> THEN "idle" ELSE "restoring"
                    /\ dresult' = IF w = <<>> THEN "Ok" ELSE dresult
                    /\ cycle' = IF w # <<>> THEN cycle
                                ELSE IF cycle = "deployed" THEN "undeployed" ELSE "none"
           ELSE /\ Restarted
                /\ UNCHANGED <<persisted_files, walk>>
                /\ dpc' = "idle"
                /\ dresult' = "Panic"
                /\ cycle' = "none"
    /\ UNCHANGED <<data, vault, profile_mods, unmanaged_files, result_vec, cur, rem,
                   dirOrder, deploys, preData, preVault, displaced>>
    /\ UNCHANGED <<mountVars, resolveVars, vdfVars, profileVars, installVars, gamesVars>>

\* undeploy(): one entry of the contents-first walk over the vault: a file
\* is renamed back under the target, a directory is removed; both unwrap.
RestoreStep ==
    /\ dpc = "restoring"
    /\ walk # <<>>
    /\ \E fault \in {"none", "rename", "remove"} :
        LET path == Head(walk)
            isfile == IsFile(vault, path)
            struck == (fault = "rename" /\ isfile) \/ (fault = "remove" /\ ~isfile)
            ok == /\ ~struck
                  /\ IF isfile THEN RenameOk(vault, path, data, path)
                     ELSE RemoveOk(vault, path)
        IN  /\ fault # "none" => (struck /\ ~fsFailed)
            /\ fsFailed' = (fsFailed \/ struck)
            /\ IF ok
               THEN /\ data' = IF isfile THEN RenameInto(vault, path, data, path) ELSE data
                    /\ vault' = Without(vault, {path})
                    /\ walk' = Tail(walk)
                    /\ dpc' = IF Tail(walk) = <<>> THEN "idle" ELSE dpc
                    /\ dresult' = IF Tail(walk) = <<>> THEN "Ok" ELSE dresult
                    /\ cycle' = IF Tail(walk) # <<>> THEN cycle
                                ELSE IF cycle = "deployed" THEN "undeployed" ELSE "none"
               ELSE /\ UNCHANGED <<data, vault>>
                    /\ walk' = <<>>
                    /\ dpc' = "idle"
                    /\ dresult' = "Panic"
                    /\ cycle' = "none"
    /\ UNCHANGED <<profile_mods, deployed_files, persisted_files, unmanaged_files,
                   result_vec, cur, rem, dirOrder, deploys, preData, preVault, displaced>>
    /\ UNCHANGED <<mountVars, resolveVars, vdfVars, profileVars, installVars, gamesVars>>

\* No call of the resolver on its own is modelled.
ResolveIdle ==
    /\ root = EmptyTree
    /\ listing = <<>>
    /\ relative_path = <<>>
    /\ resolved = [panic |-> FALSE, path |-> <<>>, reads |-> <<>>]
    /\ rpc = "none"

\* No operation on profiles or installed mods is modelled.
InstallIdle ==
    /\ extracted = <<>>
    /\ iname = "none"
    /\ mod_root = <<>>
    /\ ientries = <<>>
    /\ ipc = "none"
    /\ iresult = <<"none">>

GamesIdle ==
    /\ genv = <<>>
    /\ gop = "none"
    /\ gresult = <<"none">>

ProfileIdle ==
    /\ installed = {}
    /\ profile_files = <<>>
    /\ profile_name = "Default"
    /\ presult = "none"
    /\ last_op = <<"none">>

\* No call of the VDF parser is modelled.
VdfIdle ==
    /\ document = <<>>
    /\ buf = <<>>
    /\ kv = <<>>
    /\ vpc = "none"

MountIdle ==
    /\ mounted_paths = <<>>
    /\ original = [t \in Targets |-> EmptyDir]
    /\ target = original
    /\ backup = [t \in Targets |-> Absent]
    /\ overlay = [t \in Targets |-> NoMount]
    /\ enabled = <<>>
    /\ pc = "dropped"
    /\ result = "none"
    /\ cmds = {}
    /\ attempted = {}
    /\ calls = 0
    /\ halfMounted = {}
    /\ renameFailed = {}
    /\ unmountHist = <<>>

DeployIdle ==
    /\ profile_mods = None
    /\ data = EmptyTree
    /\ vault = EmptyTree
    /\ dirOrder = <<>>
    /\ deployed_files = None
    /\ persisted_files = None
    /\ dpc = "none"
    /\ unmanaged_files = {}
    /\ result_vec = <<>>
    /\ cur = 0
    /\ walk = <<>>
    /\ rem = 0
    /\ dresult = "none"
    /\ fsFailed = FALSE
    /\ deploys = 0
    /\ preData = EmptyTree
    /\ preVault = EmptyTree
    /\ displaced = {}
    /\ cycle = "none"

\* AppLauncher::new; the deploy engine is not used.
InitMount ==
    /\ mounted_paths = <<>>
    /\ original \in {f \in [Targets -> UNION {DirStates(t) : t \in Targets}] :
                        \A t \in Targets : f[t] \in {EmptyDir, Stuff(t)}}
    /\ target = original
    /\ backup = [t \in Targets |-> Absent]
    /\ overlay = [t \in Targets |-> NoMount]
    /\ enabled \in SeqsNoDup(Mods, MaxMods)
    /\ pc = "new"
    /\ result = "none"
    /\ cmds = {}
    /\ attempted = {}
    /\ calls = 0
    /\ halfMounted = {}
    /\ renameFailed = {}
    /\ unmountHist = <<>>
    /\ DeployIdle
    /\ ResolveIdle
    /\ VdfIdle
    /\ ProfileIdle
    /\ InstallIdle
    /\ GamesIdle

NextMount ==
    \/ MountData
    \/ MountConfig
    \/ MountAppdata
    \/ GameRun
    \/ UnmountAll
    \/ Drop

SpecMount == InitMount /\ [][NextMount]_vars

\* The profiles a ToryggState may hold: no list, or a list without
\* repetitions of installed mods.
Profiles == {None} \cup {Some(l) : l \in SeqsNoDup(StoreMods, MaxEnabled)}

\* ToryggState::new / read_or_new: nothing is deployed, the vault is empty.
InitDeploy ==
    /\ MountIdle
    /\ ResolveIdle
    /\ VdfIdle
    /\ ProfileIdle
    /\ InstallIdle
    /\ GamesIdle
    /\ profile_mods \in Profiles
    /\ data \in DataTrees
    /\ vault = EmptyTree
    /\ dirOrder \in ReadDirOrders
    /\ deployed_files = None
    /\ persisted_files = None
    /\ dpc = "idle"
    /\ unmanaged_files = {}
    /\ result_vec = <<>>
    /\ cur = 0
    /\ walk = <<>>
    /\ rem = 0
    /\ dresult = "none"
    /\ fsFailed = FALSE
    /\ deploys = 0
    /\ preData = data
    /\ preVault = vault
    /\ displaced = {}
    /\ cycle = "none"

NextDeploy ==
    \/ DeployBegin
    \/ DeployStep
    \/ DeployEnd
    \/ UndeployBegin
    \/ RemoveStep
    \/ UndeployClear
    \/ RestoreStep

SpecDeploy == InitDeploy /\ [][NextDeploy]_vars

-----------------------------------------------------------------------------
(*              Part III : the path resolver called on its own             *)
-----------------------------------------------------------------------------

\* Bound of the resolver model.
MaxDepth == 3         \* longest relative path given to the resolver

\* The relative paths: 1 to MaxDepth components.
RelPaths == UNION {[1..n -> Names] : n \in 1..MaxDepth}

\* The trees under the root: those of the deploy model and trees in which a
\* directory holds two entries that differ only by case.
ResolveRoots ==
    DataTrees \cup
    { DataTree({}, {<<"f">>, <<"F">>}),
      DataTree({<<"d">>, <<"D">>}, {<<"d", "f">>, <<"D", "F">>}),
      DataTree({<<"d">>}, {<<"D">>, <<"d", "f">>}),
      DataTree({<<"d">>, <<"d", "d">>}, {<<"d", "D">>, <<"d", "d", "f">>}),
      DataTree({<<"d">>, <<"D">>, <<"d", "d">>}, {<<"d", "d", "f">>}) }

InitResolve ==
    /\ MountIdle
    /\ DeployIdle
    /\ VdfIdle
    /\ ProfileIdle
    /\ InstallIdle
    /\ GamesIdle
    /\ root \in ResolveRoots
    /\ listing \in ReadDirOrders
    /\ relative_path \in RelPaths
    /\ resolved = [panic |-> FALSE, path |-> <<>>, reads |-> <<>>]
    /\ rpc = "call"

\* One call find_case_insensitive_path(root, relative): a pure read.
ResolveCall ==
    /\ rpc = "call"
    /\ resolved' = find_case_insensitive_path(root, listing, relative_path)
    /\ rpc' = "done"
    /\ UNCHANGED <<root, listing, relative_path>>
    /\ UNCHANGED <<mountVars, deployVars, vdfVars, profileVars, installVars, gamesVars>>

NextResolve == ResolveCall

SpecResolve == InitResolve /\ [][NextResolve]_vars

-----------------------------------------------------------------------------
(*                        Part IV: torygg_vdf::parse                       *)
-----------------------------------------------------------------------------

\* Characters are one-character strings, a text is a sequence of them.
Quote == "\""
Backslash == "\\"
Newline == "\n"
Tab == "\t"

\* PathBuf::push / PathBuf::join with a name that holds no separator: the
\* name becomes the last component; pushing the empty name leaves the
\* components as they are.
PathPush(path, name) == IF name = <<>> THEN path ELSE Append(path, name)

\* PathBuf::pop: the last component is removed, if there is one.
PathPop(path) == IF path = <<>> THEN path ELSE SubSeq(path, 1, Len(path) - 1)

\* HashMap::insert: the value stored under k is replaced.
Insert(map, k, v) == [x \in DOMAIN map \cup {k} |-> IF x = k THEN v ELSE map[x]]

\* The locals of parse before the first character.
ParseStart ==
    [in_quotes |-> FALSE, escape |-> FALSE, current_key |-> <<>>,
     current_value |-> <<>>, path |-> <<>>, kv_pairs |-> <<>>]

\* `match char { 'n' => '\n', 't' => '\t', '\\' => '\\', '\"' => '\"', _ => () }`:
\* what an escaped character appends to current_value.
Escaped(char) ==
    IF char = "n" THEN <<Newline>>
    ELSE IF char = "t" THEN <<Tab>>
    ELSE IF char = Backslash THEN <<Backslash>>
    ELSE IF char = Quote THEN <<Quote>>
    ELSE <<>>

\* The body of `for char in string.chars()` for one character.
ParseChar(st, char) ==
    IF char = Quote /\ ~st.escape
    THEN IF st.in_quotes
         THEN IF st.current_key = <<>>
              THEN [st EXCEPT !.current_key = st.current_value,
                              !.current_value = <<>>,
                              !.in_quotes = FALSE]
              ELSE [st EXCEPT !.kv_pairs = Insert(st.kv_pairs,
                                                  PathPush(st.path, st.current_key),
                                                  st.current_value),
                              !.current_key = <<>>,
                              !.current_value = <<>>,
                              !.in_quotes = FALSE]
         ELSE [st EXCEPT !.in_quotes = TRUE]
    ELSE IF char = "{" /\ ~st.in_quotes
    THEN [st EXCEPT !.path = PathPush(st.path, st.current_key), !.current_key = <<>>]
    ELSE IF char = "}" /\ ~st.in_quotes
    THEN [st EXCEPT !.path = PathPop(st.path)]
    ELSE IF st.escape
    THEN [st EXCEPT !.current_value = st.current_value \o Escaped(char),
                    !.escape = FALSE]
    ELSE IF char = Backslash
    THEN [st EXCEPT !.escape = TRUE]
    ELSE IF st.in_quotes
    THEN [st EXCEPT !.current_value = Append(st.current_value, char)]
    ELSE st

RECURSIVE ParseFrom(_, _, _, _)
\* `for char in string.chars()` over the characters lo..hi, in order: the
\* first half, then the second half from the state the first half left
\* (comparing `left` has it computed before the second half is read; as
\* mid < hi the comparison changes no result).
ParseFrom(st, string, lo, hi) ==
    IF lo > hi THEN st
    ELSE IF lo = hi THEN ParseChar(st, string[lo])
    ELSE LET mid == (lo + hi) \div 2
             left == ParseFrom(st, string, lo, mid)
         IN  IF left = ParseStart /\ mid = hi THEN left
             ELSE ParseFrom(left, string, mid + 1, hi)

\* torygg_vdf::parse(buf): the map returned.
parse(string) == ParseFrom(ParseStart, string, 1, Len(string)).kv_pairs

\* The tokens of a text.
Str(s) == <<"str", s>>
Open == <<"{">>
Close == <<"}">>

\* Bounds of the parser model.
MaxPairs == 2         \* most pairs directly inside the innermost group
MaxNest == 2          \* deepest nesting of groups

\* The keys, the values and the group names of the texts.
VdfKeys == {<<>>, <<"a">>, <<"b">>}
VdfValues == {<<>>, <<"b">>, <<"a", Newline, "b">>, <<"a", Quote>>}
VdfNames == {<<"g">>}

VdfPairs == {<<Str(k), Str(v)>> : k \in VdfKeys, v \in VdfValues}

\* The sequences of at most n members of the set `items`, concatenated.
RECURSIVE UpTo(_, _)
UpTo(items, n) ==
    IF n = 0 THEN {<<>>}
    ELSE LET shorter == UpTo(items, n - 1)
         IN  shorter \cup {b \o x : b \in shorter, x \in items}

\* The items (pairs and groups) with groups nested at most d deep. A group
\* that holds groups holds at most two items.
RECURSIVE VdfItems(_)
VdfItems(d) ==
    IF d = 0 THEN VdfPairs
    ELSE LET inner == VdfItems(d - 1)
             body  == UpTo(inner, IF d = 1 THEN MaxPairs ELSE 2)
         IN  VdfPairs \cup {<<Str(n), Open>> \o b \o <<Close>> : n \in VdfNames, b \in body}

\* The texts given to parse: one item each.
Documents == VdfItems(MaxNest)

\* The characters of a quoted string: a quote or a backslash of the string
\* is written behind a backslash.
RECURSIVE Quoted(_)
Quoted(s) ==
    IF s = <<>> THEN <<>>
    ELSE (IF Head(s) \in {Quote, Backslash} THEN <<Backslash, Head(s)>> ELSE <<Head(s)>>)
         \o Quoted(Tail(s))

\* The text of a token sequence, as the test writes it: every token is
\* followed by white space.
RECURSIVE Render(_)
Render(doc) ==
    IF doc = <<>> THEN <<>>
    ELSE (IF Head(doc)[1] = "str"
          THEN <<Quote>> \o Quoted(Head(doc)[2]) \o <<Quote, Newline>>
          ELSE <<Head(doc)[1], Newline>>)
         \o Render(Tail(doc))

InitVdf ==
    /\ MountIdle
    /\ DeployIdle
    /\ ResolveIdle
    /\ ProfileIdle
    /\ InstallIdle
    /\ GamesIdle
    /\ document \in Documents
    /\ buf = Render(document)
    /\ kv = <<>>
    /\ vpc = "call"

\* One call parse(&mut buf).
ParseCall ==
    /\ vpc = "call"
    /\ kv' = parse(buf)
    /\ vpc' = "done"
    /\ UNCHANGED <<document, buf>>
    /\ UNCHANGED <<mountVars, deployVars, resolveVars, profileVars, installVars, gamesVars>>

NextVdf == ParseCall

SpecVdf == InitVdf /\ [][NextVdf]_vars

-----------------------------------------------------------------------------
(*                  Part V: profiles and installed mods                    *)
-----------------------------------------------------------------------------

\* The mods that may be installed and the profiles under config_dir.
ProfileMods == {"m1", "m2"}
ProfileNames == {"Default", "Other"}

\* The orders in which read_dir may list the profile directories.
ProfileOrders == {<<"Default", "Other">>, <<"Other", "Default">>}

\* Vec::contains
Contains(list, x) == \E i \in 1..Len(list) : list[i] = x

\* `mods.clone().into_iter().filter(|name| name != mod_name).collect()`
Filtered(list, x) == SelectSeq(list, LAMBDA y : y # x)

\* Profile::set_mod_enabled(mod_name, enabled) on a profile whose list is
\* `mods`, with `inst` the installed mods: what it returns, the list the
\* profile holds afterwards, and whether profile.toml was written. `fault`
\* is "write" when fs::write fails.
set_mod_enabled(mods, inst, mod_name, enable, fault) ==
    IF mod_name \notin inst
    THEN [ok |-> FALSE, mods |-> mods, wrote |-> FALSE]
    ELSE LET list == IF mods = None THEN <<>> ELSE Unwrap(mods)
         IN  IF enable
             THEN IF ~Contains(list, mod_name)
                  THEN [ok |-> fault # "write", mods |-> Some(Append(list, mod_name)),
                        wrote |-> fault # "write"]
                  ELSE [ok |-> TRUE, mods |-> Some(list), wrote |-> FALSE]
             ELSE IF Contains(list, mod_name)
                  THEN LET rest == Filtered(list, mod_name)
                       IN  [ok |-> fault # "write",
                            mods |-> IF rest = <<>> THEN None ELSE Some(rest),
                            wrote |-> fault # "write"]
                  ELSE [ok |-> TRUE, mods |-> Some(list), wrote |-> FALSE]

Returned(ok) == IF ok THEN "Ok" ELSE "Err"

\* A profile whose directory under config_dir has been removed.
Gone == <<"Gone">>

\* Profile::write: `self.dir()?` fails when the profile's directory is gone.
WriteFault(files, name, fault) == IF files[name] = Gone THEN "write" ELSE fault

\* What is left of the deploy engine's state by the profile operations.
engineVars == <<data, vault, deployed_files, persisted_files, dpc,
                unmanaged_files, result_vec, cur, walk, rem, dirOrder, dresult,
                fsFailed, deploys, preData, preVault, displaced, cycle>>

\* ToryggState::activate_mod / deactivate_mod(name): refused while deployed,
\* else Profile::set_mod_enabled on the profile the state holds.
SetModEnabled(mod_name, enable, fault) ==
    /\ IF deployed
       THEN /\ presult' = "IsDeployed"
            /\ UNCHANGED <<profile_mods, profile_files>>
       ELSE LET r == set_mod_enabled(profile_mods, installed, mod_name, enable,
                                     WriteFault(profile_files, profile_name, fault))
            IN  /\ profile_mods' = r.mods
                /\ profile_files' = IF r.wrote
                                    THEN [profile_files EXCEPT ![profile_name] = r.mods]
                                    ELSE profile_files
                /\ presult' = Returned(r.ok)
    /\ UNCHANGED <<installed, profile_name, engineVars>>
    /\ UNCHANGED <<mountVars, resolveVars, vdfVars, installVars, gamesVars>>

ActivateMod ==
    \E m \in ProfileMods, fault \in {"none", "write"} :
        /\ last_op' = <<"activate_mod", m>>
        /\ SetModEnabled(m, TRUE, fault)

DeactivateMod ==
    \E m \in ProfileMods, fault \in {"none", "write"} :
        /\ last_op' = <<"deactivate_mod", m>>
        /\ SetModEnabled(m, FALSE, fault)

\* ToryggState::set_profile(profile) with a profile read from config_dir.
SetProfile ==
    \E name \in ProfileNames :
        /\ profile_files[name] # Gone
        /\ last_op' = <<"set_profile", name>>
        /\ IF deployed
           THEN /\ presult' = "IsDeployed"
                /\ UNCHANGED <<profile_mods, profile_name>>
           ELSE /\ profile_mods' = profile_files[name]
                /\ profile_name' = name
                /\ presult' \in {"Ok", "Err"}
        /\ UNCHANGED <<installed, profile_files, engineVars>>
        /\ UNCHANGED <<mountVars, resolveVars, vdfVars, installVars, gamesVars>>

\* modmanager::create_mod(mod_name)
CreateMod ==
    \E m \in ProfileMods, fault \in {"none", "create_dir"} :
        /\ last_op' = <<"create_mod", m>>
        /\ IF m \in installed \/ fault = "create_dir"
           THEN presult' = "Err" /\ UNCHANGED installed
           ELSE presult' = "Ok" /\ installed' = installed \cup {m}
        /\ UNCHANGED <<profile_mods, profile_files, profile_name, engineVars>>
        /\ UNCHANGED <<mountVars, resolveVars, vdfVars, installVars, gamesVars>>

\* ToryggState::profiles(): what is under config_dir once it has listed the
\* profiles; when there is none it creates "Default" with no mods enabled.
ProfilesOnDisk(files) ==
    IF \A n \in ProfileNames : files[n] = Gone
    THEN [files EXCEPT !["Default"] = None]
    ELSE files

\* `.first()` of the profiles listed in the order `order`.
FirstProfile(files, order) ==
    order[CHOOSE i \in 1..Len(order) :
              /\ files[order[i]] # Gone
              /\ \A j \in 1..(i - 1) : files[order[j]] = Gone]

RECURSIVE DeactivateAll(_, _, _, _, _)
\* `for mut profile in Torygg::profiles()? { profile.deactivate_mod(name)?; }`:
\* each profile is a copy read from its profile.toml, listed in the order
\* `order`; the loop stops at the first error.
DeactivateAll(files, order, inst, mod_name, fault) ==
    IF order = <<>> THEN [ok |-> TRUE, files |-> files]
    ELSE IF files[Head(order)] = Gone
    THEN DeactivateAll(files, Tail(order), inst, mod_name, fault)
    ELSE LET r == set_mod_enabled(files[Head(order)], inst, mod_name, FALSE, fault)
         IN  IF ~r.ok THEN [ok |-> FALSE, files |-> files]
             ELSE DeactivateAll(IF r.wrote THEN [files EXCEPT ![Head(order)] = r.mods]
                                           ELSE files,
                                Tail(order), inst, mod_name, fault)

\* `fs::remove_dir_all(config::mods_dir().join(name))`
Removed(inst, mod_name) == inst \ {mod_name}

\* ToryggState::uninstall_mod(name) -> modmanager::uninstall_mod(name): an
\* associated function, it does not touch the state's own profile.
UninstallMod ==
    \E m \in ProfileMods, order \in ProfileOrders, fault \in {"none", "write", "remove"} :
        LET r == DeactivateAll(ProfilesOnDisk(profile_files), order, installed, m, fault)
        IN  /\ last_op' = <<"uninstall_mod", m>>
            /\ profile_files' = r.files
            /\ IF r.ok /\ fault # "remove" /\ m \in installed
               THEN installed' = Removed(installed, m) /\ presult' = "Ok"
               ELSE UNCHANGED installed /\ presult' = "Err"
            /\ UNCHANGED <<profile_mods, profile_name, engineVars>>
            /\ UNCHANGED <<mountVars, resolveVars, vdfVars, installVars, gamesVars>>

\* The Profile values a caller can pass: the one the state holds and the
\* copies that Torygg::profiles() reads from config_dir.
HeldProfile == [name |-> profile_name, mods |-> profile_mods]
DiskProfile(name) == [name |-> name, mods |-> profile_files[name]]

\* ToryggState::delete_profile(profile)
DeleteProfile ==
    \E profile \in {HeldProfile} \cup
                   {DiskProfile(n) : n \in {x \in ProfileNames : profile_files[x] # Gone}},
       order \in ProfileOrders, fault \in {"none", "remove"} :
        /\ last_op' = <<"delete_profile", profile>>
        /\ IF profile = HeldProfile /\ deployed
           THEN /\ presult' = "IsDeployed"
                /\ UNCHANGED <<profile_files, profile_name, profile_mods>>
           ELSE IF profile_files[profile.name] = Gone \/ fault = "remove"
           THEN /\ presult' = "Err"
                /\ UNCHANGED <<profile_files, profile_name, profile_mods>>
           ELSE LET removed == [profile_files EXCEPT ![profile.name] = Gone]
                    disk == ProfilesOnDisk(removed)
                    first == FirstProfile(disk, order)
                IN  /\ presult' = "Ok"
                    /\ IF profile = HeldProfile
                       THEN /\ profile_files' = disk
                            /\ profile_name' = first
                            /\ profile_mods' = disk[first]
                       ELSE /\ profile_files' = removed
                            /\ UNCHANGED <<profile_name, profile_mods>>
        /\ UNCHANGED <<installed, engineVars>>
        /\ UNCHANGED <<mountVars, resolveVars, vdfVars, installVars, gamesVars>>

\* A record as an earlier deploy of the mod m1 stored it.
StoredRecord == Some(<< <<"f">> >>)

\* ToryggState::read_or_new with two profiles under config_dir, any of which
\* may be the first that read_dir lists: either a new state, no profile
\* having enabled a mod yet, or a state read with the record of an earlier
\* deploy of its profile, which has enabled m1.
InitProfile ==
    /\ MountIdle
    /\ ResolveIdle
    /\ VdfIdle
    /\ InstallIdle
    /\ GamesIdle
    /\ installed \in SUBSET ProfileMods
    /\ profile_name \in ProfileNames
    /\ \/ /\ deployed_files = None
          /\ profile_mods = None
          /\ profile_files = [n \in ProfileNames |-> None]
       \/ /\ deployed_files = StoredRecord
          /\ "m1" \in installed
          /\ profile_mods = Some(<<"m1">>)
          /\ profile_files = [n \in ProfileNames |->
                                 IF n = profile_name THEN Some(<<"m1">>) ELSE None]
    /\ persisted_files = deployed_files
    /\ presult = "none"
    /\ last_op = <<"none">>
    /\ data = EmptyTree
    /\ vault = EmptyTree
    /\ dirOrder = <<>>
    /\ dpc = "none"
    /\ unmanaged_files = {}
    /\ result_vec = <<>>
    /\ cur = 0
    /\ walk = <<>>
    /\ rem = 0
    /\ dresult = "none"
    /\ fsFailed = FALSE
    /\ deploys = 0
    /\ preData = EmptyTree
    /\ preVault = EmptyTree
    /\ displaced = {}
    /\ cycle = "none"

NextProfile ==
    \/ ActivateMod
    \/ DeactivateMod
    \/ SetProfile
    \/ CreateMod
    \/ UninstallMod
    \/ DeleteProfile

SpecProfile == InitProfile /\ [][NextProfile]_vars

-----------------------------------------------------------------------------
(*                 Part VI : modmanager::install_mod                       *)
-----------------------------------------------------------------------------

\* `archive.file_stem()` of the archive given to install_mod.
ArchiveStem == "MyMod"

MaxLevels == 2        \* deepest chain of directories in the extracted tree

\* The extracted trees: at each level one entry, a file or a directory, with
\* or without a second entry beside it; a directory holds the next level.
LevelNames == {"Data", "data", "mymod", "textures"}
Beside == {"none", "readme", "fomod"}
Levels == [name : LevelNames, kind : {"dir", "file"}, with : Beside]
Chains ==
    { c \in UNION { [1..n -> Levels] : n \in 0..MaxLevels } :
        \A i \in 1..(Len(c) - 1) : c[i].kind = "dir" }
LevelDir(c, i) == [j \in 1..(i - 1) |-> c[j].name]
ChainTree(c) ==
    LET main == { Append(LevelDir(c, i), c[i].name) : i \in 1..Len(c) }
        side == { Append(LevelDir(c, i), c[i].with) :
                    i \in { k \in 1..Len(c) : c[k].with # "none" } }
    IN  [p \in main \cup side |->
            IF p \in main
            THEN IF c[Len(p)].kind = "dir" THEN DirNode ELSE FileNode(<<"archive", p>>)
            ELSE IF p[Len(p)] = "fomod" THEN DirNode ELSE FileNode(<<"archive", p>>)]

\* The order in which read_dir lists the entries of a directory.
InstallOrder == <<"readme", "textures", "mymod", "data", "Data", "fomod">>

\* install_mod(archive, name, ..): the checks and the extraction before the
\* search for the mod root.
InstallBegin ==
    /\ ipc = "call"
    /\ \E archive_exists \in BOOLEAN, extract_ok \in BOOLEAN :
        IF archive_exists /\ iname \notin installed /\ extract_ok
        THEN /\ mod_root' = <<>>
             /\ ipc' = "read_dir"
             /\ UNCHANGED iresult
        ELSE /\ ipc' = "done"
             /\ iresult' = <<"Err">>
             /\ UNCHANGED mod_root
    /\ UNCHANGED <<extracted, iname, ientries>>
    /\ UNCHANGED <<mountVars, deployVars, resolveVars, vdfVars, profileVars, gamesVars>>

\* The head of the loop: `fs::read_dir(&mod_root).map_err(..)?` collected.
InstallRead ==
    /\ ipc = "read_dir"
    /\ \E fault \in {"none", "read_dir"} :
        IF fault = "read_dir"
        THEN /\ ipc' = "done"
             /\ iresult' = <<"Err">>
             /\ UNCHANGED ientries
        ELSE /\ ientries' = ReadDir(extracted, mod_root, InstallOrder)
             /\ ipc' = "check"
             /\ UNCHANGED iresult
    /\ UNCHANGED <<extracted, iname, mod_root>>
    /\ UNCHANGED <<mountVars, deployVars, resolveVars, vdfVars, profileVars, gamesVars>>

\* `path.is_dir() && (is_archive_name || is_data)`
Lowers(tree, path) ==
    /\ IsDir(tree, path)
    /\ \/ UnicaseEq(path[Len(path)], ArchiveStem)
       \/ UnicaseEq(path[Len(path)], "Data")

\* The body of the loop: with one entry mod_root is lowered when the entry is
\* a directory named as the archive or `Data`, and the loop goes on; with any
\* other number of entries the loop ends.
InstallCheck ==
    /\ ipc = "check"
    /\ IF Len(ientries) = 1
       THEN /\ mod_root' = IF Lowers(extracted, Append(mod_root, ientries[1]))
                           THEN Append(mod_root, ientries[1])
                           ELSE mod_root
            /\ ipc' = "read_dir"
       ELSE /\ ipc' = "select"
            /\ UNCHANGED mod_root
    /\ UNCHANGED <<extracted, iname, ientries, iresult>>
    /\ UNCHANGED <<mountVars, deployVars, resolveVars, vdfVars, profileVars, gamesVars>>

\* After the loop: fomod_install when mod_root holds an entry named `fomod`,
\* else install_all, which creates mods_dir/name and copies mod_root into it.
InstallSelect ==
    /\ ipc = "select"
    /\ \E fault \in {"none", "copy"} :
        LET found == ReadDir(extracted, mod_root, InstallOrder)
            via == IF \E i \in 1..Len(found) : UnicaseEq(found[i], "fomod")
                   THEN "fomod_install" ELSE "install_all"
        IN  /\ iresult' = <<IF fault = "none" THEN "Ok" ELSE "Err", via, mod_root>>
            /\ installed' = IF via = "install_all" \/ fault = "none"
                            THEN installed \cup {iname} ELSE installed
    /\ ipc' = "done"
    /\ UNCHANGED <<extracted, iname, mod_root, ientries>>
    /\ UNCHANGED <<profile_files, profile_name, presult, last_op>>
    /\ UNCHANGED <<mountVars, deployVars, resolveVars, vdfVars, gamesVars>>

InitInstall ==
    /\ MountIdle
    /\ DeployIdle
    /\ ResolveIdle
    /\ VdfIdle
    /\ GamesIdle
    /\ installed \in SUBSET ProfileMods
    /\ profile_files = <<>>
    /\ profile_name = "Default"
    /\ presult = "none"
    /\ last_op = <<"none">>
    /\ extracted \in { ChainTree(c) : c \in Chains }
    /\ iname \in ProfileMods
    /\ mod_root = <<>>
    /\ ientries = <<>>
    /\ ipc = "call"
    /\ iresult = <<"none">>

NextInstall ==
    \/ InstallBegin
    \/ InstallRead
    \/ InstallCheck
    \/ InstallSelect

\* install_mod runs in the caller's thread and is not suspended: whenever it
\* has a next step it takes one.
SpecInstall == InitInstall /\ [][NextInstall]_vars /\ WF_vars(NextInstall)

-----------------------------------------------------------------------------
(*              Part VII : the game's directories (games.rs)               *)
-----------------------------------------------------------------------------

\* What the functions read: whether get_steam_library finds the library,
\* which directories exist below it, and the environment.  A directory
\* exists only where its parent does.
GameEnvs ==
    { e \in [library   : BOOLEAN,    \* util::get_steam_library returns Ok
             pfx       : BOOLEAN,    \* steamapps/compatdata/<appid>/pfx exists
             steamuser : BOOLEAN,    \* pfx/drive_c/users/steamuser exists
             user_dir  : BOOLEAN,    \* pfx/drive_c/users/$USER exists
             user      : BOOLEAN,    \* USER is set
             override  : {"unset", "exists", "missing"}] :   \* TORYGG_USER_DIRECTORY
        /\ e.pfx => e.library
        /\ e.steamuser => e.pfx
        /\ e.user_dir => (e.pfx /\ e.user) }

GOk(path) == <<"Ok", path>>
GErr(e) == <<"Err", e>>

\* `if path.exists() { Err(ToryggError::PrefixNotFound) } else { Ok(..) }`
PfxRefused(exists) == exists

\* Game::get_wine_pfx
get_wine_pfx(e) ==
    IF ~e.library THEN GErr("SteamLibraryNotFound")
    ELSE IF PfxRefused(e.pfx) THEN GErr("PrefixNotFound")
    ELSE GOk(<<"pfx">>)

\* Game::get_wine_user_dir
get_wine_user_dir(e) ==
    IF e.override # "unset"
    THEN IF e.override = "exists" THEN GOk(<<"override">>) ELSE GErr("DirectoryNotFound")
    ELSE LET pfx == get_wine_pfx(e)
         IN  IF pfx[1] = "Err" THEN pfx
             ELSE IF e.steamuser THEN GOk(pfx[2] \o <<"drive_c", "users", "steamuser">>)
             ELSE IF e.user
             THEN IF e.user_dir THEN GOk(pfx[2] \o <<"drive_c", "users", "USER">>)
                  ELSE GErr("DirectoryNotFound")
             ELSE GErr("Other")

\* Game::get_config_dir and Game::get_appdata_dir: the user directory joined
\* with the game's folder.
UserDirJoin(e, folder) ==
    LET u == get_wine_user_dir(e)
    IN  IF u[1] = "Err" THEN u ELSE GOk(u[2] \o folder)

get_config_dir(e) == UserDirJoin(e, <<"My Documents", "My Games", "name">>)
get_appdata_dir(e) == UserDirJoin(e, <<"Local Settings", "Application Data", "name">>)

\* A call returns `value`; the functions only read.
GameReturns(value) ==
    /\ gresult' = value
    /\ UNCHANGED genv
    /\ UNCHANGED <<mountVars, deployVars, resolveVars, vdfVars, profileVars, installVars>>

GetWinePfx ==
    /\ gop' = "get_wine_pfx"
    /\ GameReturns(get_wine_pfx(genv))

GetWineUserDir ==
    /\ gop' = "get_wine_user_dir"
    /\ GameReturns(get_wine_user_dir(genv))

GetConfigDir ==
    /\ gop' = "get_config_dir"
    /\ GameReturns(get_config_dir(genv))

GetAppdataDir ==
    /\ gop' = "get_appdata_dir"
    /\ GameReturns(get_appdata_dir(genv))

InitGames ==
    /\ MountIdle
    /\ DeployIdle
    /\ ResolveIdle
    /\ VdfIdle
    /\ ProfileIdle
    /\ InstallIdle
    /\ genv \in GameEnvs
    /\ gop = "none"
    /\ gresult = <<"none">>

NextGames ==
    \/ GetWinePfx
    \/ GetWineUserDir
    \/ GetConfigDir
    \/ GetAppdataDir

SpecGames == InitGames /\ [][NextGames]_vars

-----------------------------------------------------------------------------
(*                    Properties of the mount session                      *)
-----------------------------------------------------------------------------

InList(t, list) == \E i \in 1..Len(list) : list[i] = t

\* A step that is one call of unmount_all (a retry or the one of Drop).
UnmountCalled == calls' = calls + 1

\* The umount tool succeeded for t in this step.
ToolUnmounted(t) == InList(t, mounted_paths) /\ overlay'[t] = NoMount

Restored(t) == target'[t] = original[t] /\ backup'[t] = Absent

C5_ActiveIffMounted ==
    \A t \in Targets :
        InList(t, mounted_paths) <=> (backup[t] = original[t] /\ overlay[t] # NoMount)

\* One target is active while another one has its contents under the backup
\* sibling without being mounted (its mount failed after the rename).
C5_Witness ==
    \E t, u \in Targets :
        /\ InList(t, mounted_paths) /\ overlay[t] # NoMount
        /\ ~InList(u, mounted_paths) /\ backup[u] = original[u]

\* C6: after the session is dropped, every target whose mount failed after
\* the rename holds its original contents again and has no backup sibling.
C6_TeardownReconciles ==
    pc = "dropped" =>
        \A t \in halfMounted : target[t] = original[t] /\ backup[t] = Absent

StillMounted(list) == SelectSeq(list, LAMBDA t : overlay'[t] # NoMount)

\* C8: unmount_all returns success iff the active list is empty when it
\* returns; the paths whose umount fails stay in the list in their relative
\* order and nothing on disk is renamed for them.
C8_UnmountResult ==
    [][UnmountCalled =>
         /\ result' = "Ok" <=> mounted_paths' = <<>>
         /\ mounted_paths' = StillMounted(mounted_paths)
         /\ \A t \in Targets :
              InList(t, mounted_paths')
                 => (target'[t] = target[t] /\ backup'[t] = backup[t]
                       /\ overlay'[t] = overlay[t])]_vars

\* A call with three active paths kept two of them and returned a failure.
C8_Witness ==
    /\ unmountHist # <<>>
    /\ Len(unmountHist[Len(unmountHist)][1]) = 3
    /\ Len(mounted_paths) = 2
    /\ result = "Err"

\* C9: teardown is possible on every exit path of run, it calls unmount_all,
\* which attempts an unmount for every path of the active list, and it
\* completes whatever the unmounts return.
C9_TeardownUnmountsAll ==
    /\ [](pc = "returned" => ENABLED Drop)
    /\ [][(pc # "dropped" /\ pc' = "dropped")
            => (UnmountCalled
                 /\ attempted' = {mounted_paths[i] : i \in 1..Len(mounted_paths)})]_vars

\* The session was dropped while two paths were active and one unmount failed.
C9_Witness ==
    /\ pc = "dropped"
    /\ Cardinality(attempted) = 2
    /\ Len(mounted_paths) = 1

RECURSIVE Count(_, _)
Count(s, x) == IF s = <<>> THEN 0
               ELSE (IF Head(s) = x THEN 1 ELSE 0) + Count(Tail(s), x)

\* C10: in every overlay invocation the lowerdir list is the caller's lower
\* layers in their order followed by the target's own backup sibling as the
\* last entry; that sibling appears once and no other target's sibling
\* appears.
C10_LowerDir ==
    \A c \in cmds :
        LET n == Len(c.lowerdir)
        IN  /\ n >= 1
            /\ c.lowerdir[n] = BackupPath(c.target)
            /\ SubSeq(c.lowerdir, 1, n - 1) = LowerFor(c.target)
            /\ Count(c.lowerdir, BackupPath(c.target)) = 1
            /\ \A u \in Targets \ {c.target} : Count(c.lowerdir, BackupPath(u)) = 0

\* All three targets were mounted, the data directory over two mods.
C10_Witness ==
    /\ Len(enabled) = 2
    /\ \A t \in Targets : \E c \in cmds : c.target = t

\* unmount_all has been called and the last call took t off the active list.
DroppedByUnmount(t) == calls > 0 /\ t \in attempted /\ ~InList(t, mounted_paths)

\* C24: a path leaves the active list through unmount_all only once its
\* backup sibling has been renamed back onto it: no path that unmount_all
\* dropped has its original contents under the sibling still, and
\* unmount_all does not return success with such a path.
C24_DroppedOnlyWhenRestored ==
    \A t \in Targets :
        DroppedByUnmount(t) => (backup[t] = Absent /\ target[t] = original[t])

\* C27: run launches the game only after the data, config and appdata
\* mounts all succeeded, in that order; when a mount fails the error is
\* returned at once with the mounts that succeeded still in the active
\* list, and after run returned no mount is made and no game is launched
\* until teardown.
C27_RunMountsThenLaunches ==
    [][/\ GameRun => (mounted_paths = MountOrder /\ \A t \in Targets : overlay[t] # NoMount)
       /\ \A i \in 1..3 :
            (pc = PcOf(i) /\ pc' \notin {PcOf(i), "dropped"}) =>
                IF mounted_paths' = Append(mounted_paths, MountOrder[i])
                THEN /\ pc' = (IF i = 3 THEN "game" ELSE PcOf(i + 1))
                     /\ result' = result
                     /\ mounted_paths' = SubSeq(MountOrder, 1, i)
                ELSE /\ pc' = "returned" /\ result' = "Err"
                     /\ mounted_paths' = mounted_paths
                     /\ \A c \in cmds' : \E j \in 1..i : c.target = MountOrder[j]
       /\ pc \in {"returned", "dropped"} =>
            (cmds' = cmds /\ pc' \in {"returned", "dropped"})]_vars

\* run returned the error of the config mount; the data mount that had
\* succeeded is still on the active list and mounted, and nothing was
\* mounted for appdata.
C27_Witness ==
    /\ pc = "returned" /\ calls = 0 /\ result = "Err"
    /\ mounted_paths = <<"Data">> /\ overlay["Data"] # NoMount
    /\ backup["Config"] # Absent
    /\ backup["AppData"] = Absent

-----------------------------------------------------------------------------
(*                    Properties of the deploy engine                      *)
-----------------------------------------------------------------------------

\* The enabled mods of the profile, in order (none when there is no list).
EnabledMods == IF profile_mods = None THEN <<>> ELSE Unwrap(profile_mods)

\* The last deploy returned Ok and no undeploy has started since.
Deployed == cycle = "deployed" /\ dpc = "idle"

\* C1: a successful deploy that began with an empty vault, followed by a
\* successful undeploy, leaves the target with exactly the files it had
\* before the deploy, each with its content, and with no file or directory
\* the deploy introduced.
C1_DeployRoundTrip ==
    (cycle = "undeployed" /\ preVault = EmptyTree) =>
        /\ \A p \in Files(preData) : p \in DOMAIN data /\ data[p] = preData[p]
        /\ DOMAIN data \subseteq DOMAIN preData

\* C2: during and after a deploy pass the vault holds, for every file that
\* was under the target before the deploy and has been displaced, the
\* content the file had before the deploy.
C2_VaultKeepsOriginal ==
    (dpc = "deploying" \/ Deployed) =>
        \A p \in displaced :
            IsFile(preData, p) => (p \in DOMAIN vault /\ vault[p] = preData[p])

\* The destination of the file rel of a mod under the target.
Dest(rel) == find_case_insensitive_path(data, dirOrder, rel).path

\* The positions of the enabled mods that supply a file whose destination is q.
Suppliers(q) ==
    {i \in 1..Len(EnabledMods) :
        \E rel \in Files(ModStore[EnabledMods[i]]) : Dest(rel) = q}

Max(S) == CHOOSE x \in S : \A y \in S : y <= x

\* What the last mod of Suppliers(q) supplies for q.
LastVersion(q) ==
    LET m == EnabledMods[Max(Suppliers(q))]
        rel == CHOOSE r \in Files(ModStore[m]) : Dest(r) = q
    IN  FileNode(ModContent(m, rel))

\* C4: after a successful deploy every destination supplied by two or more
\* enabled mods holds the version of the mod listed last among them, whether
\* or not the destination existed before the deploy.
C4_LastWriterWins ==
    Deployed =>
        \A q \in DOMAIN data :
            Cardinality(Suppliers(q)) >= 2 => data[q] = LastVersion(q)

\* A deploy succeeded in which two mods supplied a destination that existed
\* before, the second of them under a name of another case.
C4_Witness ==
    /\ Deployed
    /\ \E q \in Files(preData) :
          /\ Cardinality(Suppliers(q)) >= 2
          /\ data[q] = LastVersion(q)
          /\ data[q] # preData[q]
          /\ \E i \in Suppliers(q) : q \notin Files(ModStore[EnabledMods[i]])

\* C11: a deploy called while a record exists returns an error in the same
\* step and changes neither the target, the vault, the record in memory nor
\* the persisted record.
C11_DeployWhileDeployed ==
    [][(deployed_files # None /\ DeployBegin) =>
          /\ dresult' = "Err"
          /\ dpc' = "idle"
          /\ UNCHANGED <<data, vault, deployed_files, persisted_files>>]_vars

\* A deploy succeeded and wrote its record, and a second deploy was refused.
C11_Witness ==
    /\ cycle = "deployed"
    /\ dpc = "idle"
    /\ deployed_files # None
    /\ dresult = "Err"

\* C12: an undeploy called while no record exists returns an error in the
\* same step, removes nothing under the target and does not walk or drain
\* the vault.
C12_UndeployWithoutRecord ==
    [][(deployed_files = None /\ UndeployBegin) =>
          /\ dresult' = "Err"
          /\ dpc' = "idle"
          /\ UNCHANGED <<data, vault, deployed_files, persisted_files, walk, rem>>]_vars

\* An undeploy was refused before any deploy, while the target held files.
C12_Witness ==
    /\ dpc = "idle"
    /\ deployed_files = None
    /\ dresult = "Err"
    /\ deploys = 0
    /\ data # EmptyTree

Passed == {Unwrap(deployed_files)[j] : j \in (rem + 1)..Len(Unwrap(deployed_files))}

\* C14: while undeploy removes the recorded paths, the paths after the
\* current one in the record are gone from the target, a recorded directory
\* is empty when its turn comes, and in the record a directory stands before
\* every recorded path beneath it.
C14_ReverseOrderUndeploy ==
    (dpc = "removing" /\ rem >= 1) =>
        LET rec == Unwrap(deployed_files)
        IN  /\ \A p \in Passed : ~Exists(data, p)
            /\ IsDir(data, rec[rem]) => Below(data, rec[rem]) = {}
            /\ \A i \in 1..rem : \A j \in 1..Len(rec) :
                  (i # j /\ IsDir(data, rec[i]) /\ IsPrefix(rec[i], rec[j])) => i < j

\* undeploy is about to remove a recorded directory whose recorded contents
\* it has already removed.
C14_Witness ==
    /\ dpc = "removing"
    /\ rem >= 1
    /\ IsDir(data, Unwrap(deployed_files)[rem])
    /\ \E p \in Passed : IsPrefix(Unwrap(deployed_files)[rem], p)

\* A record that is present and holds no path.
PresentButEmpty(o) == o = Some(<<>>)

\* C15: in every state the state reports deployed exactly when its record is
\* present and not empty, neither the record in memory nor the persisted one
\* is present but empty, and a deploy that ends with nothing recorded leaves
\* the state undeployed.
C15_DeployedIffRecord ==
    /\ [](/\ deployed <=> (deployed_files # None /\ ~PresentButEmpty(deployed_files))
          /\ ~PresentButEmpty(deployed_files)
          /\ ~PresentButEmpty(persisted_files))
    /\ [][(DeployEnd /\ result_vec = <<>>) =>
             (dresult' = "Ok" /\ deployed_files' = None /\ ~deployed')]_vars

\* A deploy of a profile that enables a mod returned Ok with nothing
\* recorded: every directory of the mod was already under the target.
C15_Witness ==
    /\ Deployed
    /\ EnabledMods # <<>>
    /\ deployed_files = None
    /\ persisted_files = None

\* p was moved into the vault by the current deploy, itself or inside a
\* directory that was moved.
Displaced(p) == \E q \in displaced : IsPrefix(q, p)

\* C16: for a deploy that began with an empty vault, every file in the vault
\* was a file under the target before that deploy and was displaced by it;
\* until undeploy starts to restore, every displaced file that was under the
\* target before the deploy is in the vault; after a successful undeploy the
\* vault holds no file.
C16_VaultIffDisplaced ==
    preVault = EmptyTree =>
        /\ \A p \in Files(vault) : IsFile(preData, p) /\ Displaced(p)
        /\ (dpc = "deploying" \/ Deployed \/ dpc = "removing") =>
              \A p \in displaced : IsFile(preData, p) => IsFile(vault, p)
        /\ cycle = "undeployed" => Files(vault) = {}

\* The paths of a record (none when there is no record).
Recorded(o) == IF o = None THEN {} ELSE {Unwrap(o)[i] : i \in 1..Len(Unwrap(o))}

\* The paths under the target that were created or overwritten since the
\* current deploy began.
Touched(tree) == {p \in DOMAIN tree : p \notin DOMAIN preData \/ tree[p] # preData[p]}

\* C19: when a step of deploy's walk fails with a file system error, every
\* path the deploy created or overwrote before the failure is in the
\* persisted record, and so is a record in memory that lets undeploy run.
C19_PartialDeployRecorded ==
    [][(DeployStep /\ dpc' = "idle" /\ dresult' = "Err") =>
          /\ Touched(data') \subseteq Recorded(persisted_files')
          /\ (Touched(data') # {} \/ vault' # EmptyTree) => deployed_files' # None]_vars

\* The destination of the entry that the next step of deploy's walk handles.
NextDest == find_case_insensitive_path(data, dirOrder, Head(walk)).path

\* The next step of the walk handles a file entry of a mod whose destination
\* is a file that was under the target when the deploy began and has not
\* been touched since.
DisplacesFile ==
    /\ dpc = "deploying" /\ walk # <<>>
    /\ ModStore[EnabledMods[cur]][Head(walk)] # DirNode
    /\ ~find_case_insensitive_path(data, dirOrder, Head(walk)).panic
    /\ IsFile(data, NextDest)
    /\ NextDest \in unmanaged_files
    /\ IsFile(preData, NextDest) /\ data[NextDest] = preData[NextDest]

\* C23: when deploy displaces an unmanaged file at d1/.../dn/f and no file
\* system operation is made to fail, afterwards every directory d1, d1/d2,
\* ..., d1/.../dn is under the vault root and the file is at the mirrored
\* path of the vault; the store does not fail for a missing parent.
C23_VaultMirrorsPath ==
    [][(DisplacesFile /\ preVault = EmptyTree /\ DeployStep /\ ~fsFailed') =>
          /\ \A k \in 1..(Len(NextDest) - 1) : IsDir(vault', SubSeq(NextDest, 1, k))
          /\ IsFile(vault', NextDest)
          /\ vault'[NextDest] = data[NextDest]]_vars

\* undeploy runs again after an undeploy that failed, and is about to remove
\* its first path: the last paths of the record are already gone from the
\* target and the paths before them are there.
RetryOfUndeploy ==
    /\ dpc = "removing" /\ cycle = "none"
    /\ LET rec == Unwrap(deployed_files)
       IN  /\ rem = Len(rec)
           /\ \E k \in 0..(Len(rec) - 1) :
                 \A i \in 1..Len(rec) : rec[i] \in DOMAIN data <=> i <= k

\* C25: after an undeploy that failed partway, with the record still
\* present, an undeploy that is run again while no file system operation is
\* made to fail completes the reversal; in particular none of its removing
\* steps fails, so that it goes on to clear the record and restore the vault.
C25_RetryCompletesUndeploy ==
    [][(RetryOfUndeploy /\ RemoveStep /\ fsFailed' = fsFailed) => dpc' = "removing"]_vars

\* C28: undeploy removes every recorded path, then clears and persists the
\* record, then restores the vault: the record is cleared only when no
\* recorded path is left under the target and is persisted in the same
\* step, nothing leaves the vault while a record is present or persisted,
\* and a removal that fails leaves the record as it was.
C28_UndeployOrder ==
    [][/\ (deployed_files # None /\ deployed_files' = None) =>
            /\ \A p \in Recorded(deployed_files) : p \notin DOMAIN data
            /\ persisted_files' = None
            /\ data' = data /\ vault' = vault
       /\ (\E p \in DOMAIN vault : p \notin DOMAIN vault') =>
            (deployed_files = None /\ persisted_files = None)
       /\ (RemoveStep /\ dpc' = "idle") =>
            /\ deployed_files' = deployed_files /\ deployed_files # None
            /\ persisted_files' = persisted_files
            /\ vault' = vault]_vars

\* An undeploy removed the recorded paths of a successful deploy, cleared
\* the record and is moving the displaced files back from the vault: one is
\* back under the target, another is still in the vault.
C28_Witness ==
    /\ dpc = "restoring" /\ cycle = "deployed"
    /\ deployed_files = None /\ persisted_files = None
    /\ \E p \in displaced : p \notin DOMAIN vault /\ IsFile(data, p) /\ data[p] = preData[p]
    /\ \E p \in displaced : IsFile(vault, p)

\* C29: after a successful undeploy the vault root holds no file and no
\* directory; during the walk over the vault every entry still in the vault
\* is still to be visited, no directory is visited before an entry beneath
\* it, a file leaves the vault by being renamed to the same relative path
\* under the target, and a directory is removed only when nothing is left
\* beneath it.
C29_RestoreEmptiesVault ==
    /\ [](dpc = "restoring" =>
            /\ DOMAIN vault = {walk[i] : i \in 1..Len(walk)}
            /\ \A i, j \in 1..Len(walk) :
                  i < j => ~(Len(walk[i]) < Len(walk[j]) /\ IsPrefix(walk[i], walk[j])))
    /\ [][/\ ((UndeployClear \/ RestoreStep) /\ dpc' = "idle" /\ dresult' = "Ok")
                => vault' = EmptyTree
          /\ dpc = "restoring" =>
                \A p \in DOMAIN vault \ DOMAIN vault' :
                    IF IsFile(vault, p)
                    THEN p \in DOMAIN data' /\ data'[p] = vault[p]
                    ELSE Below(vault, p) = {}]_vars

\* A successful undeploy has emptied a vault that held a displaced file in
\* a directory, and the file is back at its place under the target.
C29_Witness ==
    /\ dpc = "idle" /\ cycle = "undeployed" /\ dresult = "Ok"
    /\ vault = EmptyTree
    /\ \E p \in displaced : Len(p) = 2 /\ IsFile(data, p) /\ data[p] = preData[p]

\* No path is twice in the sequence.
NoDup(rec) == \A i, j \in 1..Len(rec) : i # j => rec[i] # rec[j]

\* C30: the record built by deploy never holds a relative path twice and
\* lists the paths in the order in which they were first created or
\* overwritten: a step of the walk that creates or overwrites its
\* destination appends it unless the record holds it already, a step that
\* changes nothing appends nothing, and the record stored at the end is the
\* one built; also when several mods supply the same file or directory.
C30_RecordInFirstTouchOrder ==
    /\ [](NoDup(result_vec) /\ NoDup(IF deployed_files = None THEN <<>>
                                     ELSE Unwrap(deployed_files)))
    /\ [][/\ (DeployStep /\ dpc' = "deploying") =>
                LET to == NextDest
                    changed == IF ModStore[EnabledMods[cur]][Head(walk)] = DirNode
                               THEN ~IsDir(data, to) /\ IsDir(data', to)
                               ELSE IsFile(data', to)
                IN  result_vec' = IF changed /\ ~Contains(result_vec, to)
                                  THEN Append(result_vec, to) ELSE result_vec
          /\ (DeployEnd /\ result_vec # <<>> /\ dresult' = "Ok") =>
                deployed_files' = Some(result_vec)]_vars

\* A deploy of two mods that supply one file and of which the second also
\* supplies other entries has ended: the record holds that file once, before
\* the paths that were first touched after it.
C30_Witness ==
    /\ Deployed /\ Len(EnabledMods) = 2
    /\ LET rec == Unwrap(deployed_files)
       IN  \E p \in Files(ModStore[EnabledMods[1]]) \cap Files(ModStore[EnabledMods[2]]) :
               /\ rec[1] = p
               /\ Len(rec) >= 3

\* The paths of the record stored by the last deploy.
Record == IF deployed_files = None THEN <<>> ELSE Unwrap(deployed_files)

\* C31: a directory that was under the target before the deploy is skipped
\* by every directory entry that resolves to it, so after a successful deploy
\* the record holds no path that was a directory when the deploy began.
C31_ExistingDirNotRecorded ==
    Deployed => \A i \in 1..Len(Record) : ~IsDir(preData, Record[i])

\* C32: whatever a deploy puts into the vault was under the target when that
\* deploy began: every file of the vault either was in the vault before the
\* deploy or has a path of the snapshot taken at its start, so no file that
\* only a mod of the same pass wrote is ever stored there.
C32_VaultOnlyFromSnapshot ==
    \A p \in Files(vault) : p \in DOMAIN preVault \/ p \in DOMAIN preData

\* Two entries of one directory have names that are equal ignoring case.
CaseSiblings(tree) ==
    \E p, q \in DOMAIN tree :
        /\ p # q
        /\ Len(p) = Len(q)
        /\ Parent(p) = Parent(q)
        /\ Fold(p[Len(p)]) = Fold(q[Len(q)])

\* Two paths are equal ignoring the case of every component.
SameFolded(p, q) == Len(p) = Len(q) /\ \A i \in 1..Len(p) : Fold(p[i]) = Fold(q[i])

\* C35: when the target had no two sibling entries with names equal ignoring
\* case as the deploy began, and no enabled mod's tree has such siblings, the
\* target has none during and after the deploy, and an entry that is equal
\* ignoring case to a path the target had then is spelled as that path was.
C35_NoCaseSiblings ==
    (/\ dpc = "deploying" \/ Deployed
     /\ ~CaseSiblings(preData)
     /\ \A i \in 1..Len(EnabledMods) : ~CaseSiblings(ModStore[EnabledMods[i]])) =>
        /\ ~CaseSiblings(data)
        /\ \A p \in DOMAIN preData, q \in DOMAIN data : SameFolded(p, q) => p = q

\* The mods m2 and m3, which spell one directory and its file `d/f` and
\* `D/F`, have been deployed into a target that held an entry `D`: m2 wrote
\* below `D`, and the file there is the one m3 wrote last.
C35_Witness ==
    /\ Deployed
    /\ EnabledMods = <<"m2", "m3">>
    /\ IsDir(preData, <<"D">>)
    /\ ~CaseSiblings(preData)
    /\ \E q \in Files(data) :
           /\ SameFolded(q, <<"d", "f">>)
           /\ q[1] = "D"
           /\ data[q] = FileNode(ModContent("m3", <<"D", "F">>))

-----------------------------------------------------------------------------
(*                     Properties of the path resolver                     *)
-----------------------------------------------------------------------------

\* C17: a relative path that exists under the root with exactly the given
\* casing is returned unchanged, also when a directory on it holds another
\* entry that differs from the component only by case.
C17_ExactPathUnchanged ==
    (rpc = "done" /\ Exists(root, relative_path)) =>
        (~resolved.panic /\ resolved.path = relative_path)

\* p and q have the same length and are equal component by component
\* ignoring case.
PathUnicaseEq(p, q) ==
    Len(p) = Len(q) /\ \A i \in 1..Len(p) : UnicaseEq(p[i], q[i])

\* The number of leading components of rel that match existing entries under
\* the root ignoring case.
MatchLen(tree, rel) ==
    CHOOSE k \in 0..Len(rel) :
        /\ \E p \in DOMAIN tree \cup {<<>>} : PathUnicaseEq(p, SubSeq(rel, 1, k))
        /\ \A n \in (k + 1)..Len(rel) :
              ~\E p \in DOMAIN tree : PathUnicaseEq(p, SubSeq(rel, 1, n))

\* C18: when the leading k components of the relative path match existing
\* entries ignoring case and component k+1 matches nothing, the call returns
\* an existing path for the first k components, equal to them ignoring case,
\* followed by component k+1 and every later component as given.
C18_KnownPrefixNewTail ==
    LET k == MatchLen(root, relative_path)
        n == Len(relative_path)
    IN  (rpc = "done" /\ k < n) =>
            /\ ~resolved.panic
            /\ Len(resolved.path) = n
            /\ Exists(root, SubSeq(resolved.path, 1, k))
            /\ PathUnicaseEq(SubSeq(resolved.path, 1, k), SubSeq(relative_path, 1, k))
            /\ SubSeq(resolved.path, k + 1, n) = SubSeq(relative_path, k + 1, n)

\* Component j of the relative path has a match ignoring case in the
\* directory that the first j-1 components of the result name.
MatchedAt(j) ==
    \E name \in Names :
        /\ UnicaseEq(name, relative_path[j])
        /\ Append(SubSeq(resolved.path, 1, j - 1), name) \in DOMAIN root

\* Component j is the first without a match in the directory of the
\* accumulated prefix.
MissAt(j) ==
    /\ j - 1 <= Len(resolved.path)
    /\ IsDir(root, SubSeq(resolved.path, 1, j - 1))
    /\ \A i \in 1..(j - 1) : MatchedAt(i)
    /\ ~MatchedAt(j)

\* C26: once a component has no match ignoring case in the directory of the
\* accumulated prefix, that component and every later one are appended as
\* given, and no directory is read after the one in which the match failed.
C26_VerbatimAfterMiss ==
    rpc = "done" =>
        \A j \in 1..Len(relative_path) :
            MissAt(j) =>
                /\ ~resolved.panic
                /\ Len(resolved.path) = Len(relative_path)
                /\ SubSeq(resolved.path, j, Len(relative_path))
                       = SubSeq(relative_path, j, Len(relative_path))
                /\ Len(resolved.reads) = j
                /\ \A i \in 1..j : resolved.reads[i] = SubSeq(resolved.path, 1, i - 1)

\* A path of three components whose first component matched an entry with
\* another spelling and whose second did not match; the third would match
\* an entry of the root.
C26_Witness ==
    /\ rpc = "done" /\ Len(relative_path) = 3
    /\ MissAt(2)
    /\ resolved.path[1] # relative_path[1]
    /\ <<relative_path[3]>> \in DOMAIN root

\* C38: for every root and every relative path the call returns a path with
\* as many components as the path given, each equal to the given component
\* ignoring case.
C38_SameShapeIgnoringCase ==
    rpc = "done" =>
        /\ ~resolved.panic
        /\ Len(resolved.path) = Len(relative_path)
        /\ \A i \in 1..Len(relative_path) :
               Fold(resolved.path[i]) = Fold(relative_path[i])

-----------------------------------------------------------------------------
(*                      Mounting and deploying compared                    *)
-----------------------------------------------------------------------------

\* The directory tree behind one entry of the lowerdir option that mount_all
\* builds for the data directory: the backup sibling holds what the target
\* held before, every other entry is the directory of an installed mod.
LayerTree(name) ==
    IF name = BackupPath("Data") THEN preData
    ELSE ModStore[CHOOSE m \in StoreMods : ModPath(m) = name]

\* mount_all: `mod_paths` are the enabled mods' directories in list order;
\* mount_path appends the backup sibling. The layers of the data mount for
\* the profile's list, first entry of lowerdir first.
MountLayers ==
    LET mod_paths == [i \in 1..Len(EnabledMods) |-> ModPath(EnabledMods[i])]
        lowerdir  == LowerDir("Data", mod_paths)
    IN  [i \in 1..Len(lowerdir) |-> LayerTree(lowerdir[i])]

\* fuse-overlayfs: layer i shows its entry p unless an earlier entry of
\* lowerdir holds a file where p has a directory above it.
Shows(layers, i, p) ==
    /\ p \in DOMAIN layers[i]
    /\ \A k \in 1..(Len(p) - 1) : \A j \in 1..i :
          SubSeq(p, 1, k) \in DOMAIN layers[j] => layers[j][SubSeq(p, 1, k)] = DirNode

\* fuse-overlayfs -o lowerdir=l1:l2:... with an empty upper directory: the
\* merged tree holds every shown entry, taken from the first layer of
\* lowerdir that shows it.
OverlayView(layers) ==
    LET shown == {p \in UNION {DOMAIN layers[i] : i \in DOMAIN layers} :
                     \E i \in DOMAIN layers : Shows(layers, i, p)}
        top(p) == CHOOSE i \in DOMAIN layers :
                     /\ Shows(layers, i, p)
                     /\ \A j \in 1..(i - 1) : ~Shows(layers, j, p)
    IN  [p \in shown |-> layers[top(p)][p]]

AllPaths ==
    DOMAIN preData \cup
    UNION {DOMAIN ModStore[EnabledMods[i]] : i \in 1..Len(EnabledMods)}

\* No two of those paths differ only by the case of their names.
CaseExact == \A p, q \in AllPaths : PathUnicaseEq(p, q) => p = q

\* No path is supplied by two entries of the enabled list, unless both
\* supply it as a directory.
NoPathTwice ==
    \A i, j \in 1..Len(EnabledMods) : i # j =>
        \A p \in DOMAIN ModStore[EnabledMods[i]] \cap DOMAIN ModStore[EnabledMods[j]] :
            ModStore[EnabledMods[i]][p] = DirNode /\ ModStore[EnabledMods[j]][p] = DirNode

-----------------------------------------------------------------------------
(*                      Properties of the VDF parser                       *)
-----------------------------------------------------------------------------

\* The key/value pairs of a token sequence from token i on, each with the
\* names of the groups that enclose it, outermost first.
RECURSIVE DocPairs(_, _, _)
DocPairs(doc, i, groups) ==
    IF i > Len(doc) THEN {}
    ELSE IF doc[i] = Close
    THEN DocPairs(doc, i + 1, SubSeq(groups, 1, Len(groups) - 1))
    ELSE IF doc[i + 1] = Open
    THEN DocPairs(doc, i + 2, Append(groups, doc[i][2]))
    ELSE {[at |-> i, groups |-> groups, key |-> doc[i][2], value |-> doc[i + 1][2]]}
         \cup DocPairs(doc, i + 2, groups)

\* The group names of a pair joined with its own key, as a path.
FullKey(pr) == IF pr.key = <<>> THEN pr.groups ELSE Append(pr.groups, pr.key)

\* C21: parse stores every quoted key/value pair under the names of its
\* enclosing groups, outermost first, joined with its own key, also a pair
\* that follows a closed subgroup, a pair with an empty value and a pair
\* whose value holds a newline; of two pairs with one key the later is kept.
C21_ParseStoresPairs ==
    vpc = "done" =>
        LET pairs == DocPairs(document, 1, <<>>)
        IN  \A pr \in pairs :
                /\ FullKey(pr) \in DOMAIN kv
                /\ (\A other \in pairs : FullKey(other) = FullKey(pr) => other.at <= pr.at)
                       => kv[FullKey(pr)] = pr.value

-----------------------------------------------------------------------------
(*              Properties of profiles and installed mods                  *)
-----------------------------------------------------------------------------

\* The mod is in the enabled list o (in none when there is no list).
Enabled(o, mod_name) == o # None /\ Contains(Unwrap(o), mod_name)

\* C22: after uninstall_mod(m) returned successfully, m is in the enabled
\* list of no profile under config_dir, it is not in the enabled list of the
\* profile the running ToryggState holds, and it is not installed.
C22_UninstalledNowhereEnabled ==
    \A m \in ProfileMods :
        (last_op = <<"uninstall_mod", m>> /\ presult = "Ok") =>
            /\ \A n \in ProfileNames : ~Enabled(profile_files[n], m)
            /\ ~Enabled(profile_mods, m)
            /\ m \notin installed

\* C33: whenever deploy can walk the mods (the state is not deployed), every
\* mod in the enabled list of the profile the state holds has its directory
\* under mods_dir, so deploy never stops at a missing mod directory.
C33_EnabledModsInstalled ==
    ~deployed => \A i \in 1..Len(EnabledMods) : EnabledMods[i] \in installed

\* C37: the enabled list of the profile the state holds never has a name
\* twice and is None whenever no mod is enabled, never an empty list.
C37_EnabledListWellFormed ==
    /\ profile_mods # Some(<<>>)
    /\ NoDup(EnabledMods)

-----------------------------------------------------------------------------
(*                       Properties of install_mod                         *)
-----------------------------------------------------------------------------

\* C36: for every extracted tree install_mod's search for the mod root ends:
\* the loop is left, by the break or by an error return.
C36_SearchTerminates == <>(ipc \in {"select", "done"})

-----------------------------------------------------------------------------
(*                 Properties of the game's directories                    *)
-----------------------------------------------------------------------------

\* The call returned Ok.
GameOk == gresult[1] = "Ok"

\* C39: when the steam library is found, get_wine_pfx returns the prefix if
\* the pfx path exists and PrefixNotFound if it does not; with no override in
\* the environment, get_wine_user_dir, get_config_dir and get_appdata_dir
\* succeed when the prefix and the user directory in it exist.
C39_PrefixFoundWhenItExists ==
    /\ (gop = "get_wine_pfx" /\ genv.library) =>
          IF genv.pfx THEN gresult = GOk(<<"pfx">>) ELSE gresult = GErr("PrefixNotFound")
    /\ (/\ gop \in {"get_wine_user_dir", "get_config_dir", "get_appdata_dir"}
        /\ genv.override = "unset"
        /\ genv.pfx
        /\ genv.steamuser \/ genv.user_dir) => GameOk

====
